---- MODULE Spec2Model ----
(***************************************************************************)
(* Order book updater, Redis store and depth gateway of the                *)
(* crypto-order-book service, as a state machine.                          *)
(*                                                                         *)
(* One action is one turn of the Node event loop (a callback together with *)
(* the promise continuations it resumes) or one command executed by the    *)
(* Redis server.  Each Redis connection is a FIFO: commands are executed   *)
(* in the order they were written, replies are handled in that order.      *)
(* Prices and quantities are integers (ticks and lots).                    *)
(***************************************************************************)
EXTENDS Integers, Sequences, FiniteSets

\* ------------------------------------------------------------------ bounds
\* Update cycles started in one behaviour (initial, timer-driven, manual).
MaxCycles == 2
\* Socket.io clients that connect in one behaviour.
NumClients == 2
\* Market-order requests made in one behaviour.
NumRequests == 1
\* The reading of the clock past which only a fetch advances it.
MaxClock == 3

\* ----------------------------------------------------- configuration values
\* Config.exchange.depthLevels (DEPTH_LEVELS, env DEPTH_LEVELS).
DEPTH_LEVELS == 2
\* Config.websocket.topLevelsToPublish (TOP_LEVELS, env WS_TOP_LEVELS).
TOP_LEVELS == 1
\* The limit handleConnection passes to getOrderBook.
SNAPSHOT_LIMIT == 1
\* Config.websocket.maxConnections (MAX_CONNECTIONS, env WS_MAX_CONNECTIONS).
MAX_CONNECTIONS == 2
\* Config.exchange.maxRetryAttempts (MAX_ATTEMPTS, env EXCHANGE_MAX_RETRY_ATTEMPTS).
MAX_ATTEMPTS == 2
\* Config.exchange.retryDelayMs and retryBackoffMultiplier (INITIAL_DELAY_MS,
\* BACKOFF_MULTIPLIER), in milliseconds.
\* The value of MAX_ATTEMPTS when the environment does not set it.
DEFAULT_MAX_ATTEMPTS == 3
INITIAL_DELAY_MS == 1000
BACKOFF_MULTIPLIER == 2
\* Config.marketOrder.minOrderSize and maxOrderSize (MIN_ORDER_SIZE, MAX_ORDER_SIZE),
\* in the unit of amounts (see order-book.utils below).
MIN_ORDER_SIZE == 10
MAX_ORDER_SIZE == 100

Cycles == 1..MaxCycles
Clients == 1..NumClients
Requests == 1..NumRequests

\* ------------------------------------------------------------ sequences
Min(a, b) == IF a <= b THEN a ELSE b

\* Array.prototype.slice(0, n)
Slice(s, n) == SubSeq(s, 1, Min(n, Len(s)))

Price(level) == level[1]
Quantity(level) == level[2]

\* ------------------------------------------------- numbers and their text
\* Characters are one-character strings; a text is a sequence of characters.
DigitChar == <<"0", "1", "2", "3", "4", "5", "6", "7", "8", "9">>

DigitVal(ch) ==
    CASE ch = "0" -> 0 [] ch = "1" -> 1 [] ch = "2" -> 2 [] ch = "3" -> 3
      [] ch = "4" -> 4 [] ch = "5" -> 5 [] ch = "6" -> 6 [] ch = "7" -> 7
      [] ch = "8" -> 8 [] ch = "9" -> 9

\* Character code, for the bytewise comparison Redis applies to members.
CharCode(ch) == IF ch = "-" THEN 45 ELSE 48 + DigitVal(ch)

RECURSIVE Digits(_)
Digits(n) ==
    IF n < 10 THEN <<DigitChar[n + 1]>>
    ELSE Digits(n \div 10) \o <<DigitChar[(n % 10) + 1]>>

\* Number.prototype.toString / the text ioredis writes for a numeric argument
ToString(n) == IF n < 0 THEN <<"-">> \o Digits(-n) ELSE Digits(n)

RECURSIVE DigitsValue(_)
DigitsValue(s) ==
    IF s = <<>> THEN 0
    ELSE 10 * DigitsValue(SubSeq(s, 1, Len(s) - 1)) + DigitVal(s[Len(s)])

\* parseFloat on the text of a number
ParseFloat(s) ==
    IF s # <<>> /\ s[1] = "-" THEN -DigitsValue(Tail(s)) ELSE DigitsValue(s)

\* memcmp order of two texts (Redis orders equal-score members this way)
RECURSIVE LexLess(_, _)
LexLess(a, b) ==
    IF b = <<>> THEN FALSE
    ELSE IF a = <<>> THEN TRUE
    ELSE IF CharCode(a[1]) # CharCode(b[1]) THEN CharCode(a[1]) < CharCode(b[1])
    ELSE LexLess(Tail(a), Tail(b))

\* ------------------------------------------------------ Redis sorted sets
\* A sorted set is a set of entries [member, score] with unique members.
ZLess(e, f) ==
    \/ e.score < f.score
    \/ e.score = f.score /\ LexLess(e.member, f.member)

RECURSIVE ZOrdered(_)
ZOrdered(zset) ==
    IF zset = {} THEN <<>>
    ELSE LET first == CHOOSE e \in zset : \A f \in zset \ {e} : ZLess(e, f)
         IN  <<first>> \o ZOrdered(zset \ {first})

\* ZADD key score member [score member ...]: a member already present keeps
\* one entry, with the new score.
RECURSIVE ZAdd(_, _)
ZAdd(zset, args) ==
    IF args = <<>> THEN zset
    ELSE LET score == ParseFloat(args[1][1])
             member == args[1][2]
         IN  ZAdd({e \in zset : e.member # member}
                      \cup {[member |-> member, score |-> score]},
                  Tail(args))

\* ZRANGE key 0 stop WITHSCORES (stop = -1: to the end): the flat reply
\* member, score, member, score, ...
RECURSIVE Flatten(_)
Flatten(entries) ==
    IF entries = <<>> THEN <<>>
    ELSE <<entries[1].member, ToString(entries[1].score)>> \o Flatten(Tail(entries))

ZRange(zset, stop) ==
    LET all == ZOrdered(zset)
    IN  Flatten(IF stop < 0 THEN all ELSE Slice(all, stop + 1))

\* ------------------------------------------------------------ order books
NoBook == [bids |-> <<>>, asks |-> <<>>, timestamp |-> 0]

\* What the exchange may answer (CCXTOrderBook.bids / .asks), levels <<price, quantity>>:
\* a sorted book, an unsorted one, a crossed one, one that repeats a price, one
\* whose levels carry the same quantity and one with no asks.
FeedBooks ==
    { [bids |-> << <<4, 1>>, <<3, 2>> >>, asks |-> << <<5, 1>>, <<6, 2>> >>],
      [bids |-> << <<2, 3>>, <<3, 1>> >>, asks |-> << <<6, 2>>, <<5, 4>>, <<4, 1>> >>],
      [bids |-> << <<5, 1>> >>,           asks |-> << <<5, 2>> >>] }

RawBooks ==
    FeedBooks \cup
    { [bids |-> << <<4, 1>>, <<4, 2>> >>, asks |-> << <<6, 1>> >>],
      [bids |-> << <<4, 2>>, <<3, 2>> >>, asks |-> << <<5, 3>> >>],
      [bids |-> << <<4, 3>> >>,           asks |-> << >>] }

\* What the exchange answers in the behaviours about quantities: a book with
\* positive quantities and one with a level of quantity zero.
QuantityBooks ==
    { [bids |-> << <<4, 1>>, <<3, 2>> >>, asks |-> << <<5, 1>>, <<6, 2>> >>],
      [bids |-> << <<4, 0>>, <<3, 2>> >>, asks |-> << <<5, 1>> >>] }

\* Array.prototype.sort (stable) with the comparator (a, b) => b[0] - a[0]
RECURSIVE InsertDesc(_, _)
InsertDesc(level, sorted) ==
    IF sorted = <<>> THEN <<level>>
    ELSE IF Price(sorted[1]) >= Price(level)
         THEN <<sorted[1]>> \o InsertDesc(level, Tail(sorted))
         ELSE <<level>> \o sorted

RECURSIVE SortDesc(_)
SortDesc(levels) ==
    IF levels = <<>> THEN <<>>
    ELSE InsertDesc(levels[Len(levels)], SortDesc(SubSeq(levels, 1, Len(levels) - 1)))

\* Array.prototype.sort (stable) with the comparator (a, b) => a[0] - b[0]
RECURSIVE InsertAsc(_, _)
InsertAsc(level, sorted) ==
    IF sorted = <<>> THEN <<level>>
    ELSE IF Price(sorted[1]) <= Price(level)
         THEN <<sorted[1]>> \o InsertAsc(level, Tail(sorted))
         ELSE <<level>> \o sorted

RECURSIVE SortAsc(_)
SortAsc(levels) ==
    IF levels = <<>> THEN <<>>
    ELSE InsertAsc(levels[Len(levels)], SortAsc(SubSeq(levels, 1, Len(levels) - 1)))

\* transformOrderBook that keeps the order of the exchange
transformOrderBookUnsorted(ccxtBook, dateNow) ==
    [bids |-> Slice(ccxtBook.bids, DEPTH_LEVELS),
     asks |-> Slice(ccxtBook.asks, DEPTH_LEVELS),
     timestamp |-> IF ccxtBook.timestamp # 0 THEN ccxtBook.timestamp ELSE dateNow]

\* CcxtService.transformOrderBook; dateNow stands for Date.now()
transformOrderBook(ccxtBook, dateNow) ==
    [bids |-> SortDesc(Slice(ccxtBook.bids, DEPTH_LEVELS)),
     asks |-> SortAsc(Slice(ccxtBook.asks, DEPTH_LEVELS)),
     timestamp |-> IF ccxtBook.timestamp # 0 THEN ccxtBook.timestamp ELSE dateNow]

\* validateOrderBook
validateOrderBook(orderBook) ==
    /\ \A i \in 2..Len(orderBook.bids) :
           ~(Price(orderBook.bids[i]) > Price(orderBook.bids[i - 1]))
    /\ \A i \in 2..Len(orderBook.asks) :
           ~(Price(orderBook.asks[i]) < Price(orderBook.asks[i - 1]))
    /\ ~(/\ Len(orderBook.bids) > 0
         /\ Len(orderBook.asks) > 0
         /\ Price(orderBook.bids[1]) >= Price(orderBook.asks[1]))

\* ------------------------------------------------- RedisService pipelines
BIDS_KEY == "bids"
ASKS_KEY == "asks"
Keys == {BIDS_KEY, ASKS_KEY}

\* A command of a pipeline.  ver is a history field: the timestamp of the book
\* whose storeOrderBook call issued the command (0 for a read).
Cmd(op, key, args, stop, ver) ==
    [op |-> op, key |-> key, args |-> args, stop |-> stop, ver |-> ver]

\* bidsArgs.push(-price, quantity.toString())
BidsArgs(levels) ==
    [i \in 1..Len(levels) |-> <<ToString(-Price(levels[i])), ToString(Quantity(levels[i]))>>]

\* asksArgs.push(price, quantity.toString())
AsksArgs(levels) ==
    [i \in 1..Len(levels) |-> <<ToString(Price(levels[i])), ToString(Quantity(levels[i]))>>]

\* RedisService.storeOrderBook: the commands queued on the pipeline
StoreCommands(orderBook) ==
    LET ver == orderBook.timestamp
    IN  << Cmd("DEL", BIDS_KEY, <<>>, 0, ver), Cmd("DEL", ASKS_KEY, <<>>, 0, ver) >>
        \o (IF Len(orderBook.bids) > 0
            THEN << Cmd("ZADD", BIDS_KEY, BidsArgs(orderBook.bids), 0, ver),
                    Cmd("EXPIRE", BIDS_KEY, <<>>, 0, ver) >>
            ELSE <<>>)
        \o (IF Len(orderBook.asks) > 0
            THEN << Cmd("ZADD", ASKS_KEY, AsksArgs(orderBook.asks), 0, ver),
                    Cmd("EXPIRE", ASKS_KEY, <<>>, 0, ver) >>
            ELSE <<>>)

\* RedisService.getOrderBook(limit) / getFullOrderBook (limit = 0: ZRANGE 0 -1)
ReadCommands(limit) ==
    << Cmd("ZRANGE", BIDS_KEY, <<>>, limit - 1, 0),
       Cmd("ZRANGE", ASKS_KEY, <<>>, limit - 1, 0) >>

\* RedisService.parseRedisZRange
RECURSIVE parseRedisZRange(_, _)
parseRedisZRange(data, isBids) ==
    IF Len(data) < 2 THEN <<>>
    ELSE LET quantity == ParseFloat(data[1])
             price == ParseFloat(data[2])
         IN  << <<IF isBids THEN -price ELSE price, quantity>> >>
             \o parseRedisZRange(SubSeq(data, 3, Len(data)), isBids)

\* The book getOrderBook / getFullOrderBook builds from the pipeline's results
ReadResult(results, dateNow) ==
    [bids |-> parseRedisZRange(results[1], TRUE),
     asks |-> parseRedisZRange(results[2], FALSE),
     timestamp |-> dateNow]

\* JSON.stringify / JSON.parse of the published book
JsonLevels(levels) ==
    [i \in 1..Len(levels) |-> <<ToString(Price(levels[i])), ToString(Quantity(levels[i]))>>]

JsonStringify(orderBook) ==
    [bids |-> JsonLevels(orderBook.bids),
     asks |-> JsonLevels(orderBook.asks),
     timestamp |-> ToString(orderBook.timestamp)]

JsonParseLevels(texts) ==
    [i \in 1..Len(texts) |-> <<ParseFloat(texts[i][1]), ParseFloat(texts[i][2])>>]

JsonParse(message) ==
    [bids |-> JsonParseLevels(message.bids),
     asks |-> JsonParseLevels(message.asks),
     timestamp |-> ParseFloat(message.timestamp)]

\* ---------------------------------------------------- OrderHistoryService
\* The keys storeOrder writes, for the one client address and the one date of a
\* behaviour: `order:history:all`, `order:history:ip:<ip>`, `order:history:date:<date>`.
HISTORY_ALL == "order:history:all"
HISTORY_IP == "order:history:ip"
HISTORY_DATE == "order:history:date"
HistoryKeys == {HISTORY_ALL, HISTORY_IP, HISTORY_DATE}

\* The history keys of an empty Redis: entries (for the sorted set in the order
\* of its scores, for a list from its head) and whether the key carries a TTL.
EmptyLedger ==
    [entries |-> [k \in HistoryKeys |-> <<>>], ttl |-> [k \in HistoryKeys |-> FALSE]]

\* HistoryCommands that first clears the bids of the book
HistoryCommandsClearBids(record) ==
    << Cmd("DEL", BIDS_KEY, <<>>, 0, 0),
       Cmd("ZADD", HISTORY_ALL, <<record>>, 0, 0),
       Cmd("LPUSH", HISTORY_IP, <<record>>, 0, 0),
       Cmd("LPUSH", HISTORY_DATE, <<record>>, 0, 0),
       Cmd("EXPIRE", HISTORY_IP, <<>>, 0, 0),
       Cmd("EXPIRE", HISTORY_DATE, <<>>, 0, 0) >>

\* OrderHistoryService.storeOrder: the commands queued on the pipeline
HistoryCommands(record) ==
    << Cmd("ZADD", HISTORY_ALL, <<record>>, 0, 0),
       Cmd("LPUSH", HISTORY_IP, <<record>>, 0, 0),
       Cmd("LPUSH", HISTORY_DATE, <<record>>, 0, 0),
       Cmd("EXPIRE", HISTORY_IP, <<>>, 0, 0),
       Cmd("EXPIRE", HISTORY_DATE, <<>>, 0, 0) >>

\* Redis executes a command on a history key.  The scores of
\* `order:history:all` are the times of the requests, which the one connection
\* delivers in order, and the members are distinct (each carries its own id):
\* ZADD adds at the end.  EXPIRE sets a TTL on a key that exists.
LedgerExec(led, cmd) ==
    CASE cmd.op = "ZADD" ->
            [led EXCEPT !.entries[cmd.key] = @ \o cmd.args]
      [] cmd.op = "LPUSH" ->
            [led EXCEPT !.entries[cmd.key] = cmd.args \o @]
      [] cmd.op = "EXPIRE" ->
            [led EXCEPT !.ttl[cmd.key] = (led.entries[cmd.key] # <<>>)]
      [] OTHER -> led

\* ------------------------------------------------------ order-book.utils
\* Quantities and amounts are counted in tenths of the last digit that
\* toFixed(QUANTITY_PRECISION) keeps, prices in units of the last digit that
\* toFixed(PRICE_PRECISION) keeps.  Level prices and quantities as the exchange
\* quotes them lie on those grids (quantities are multiples of 10); the amount
\* of an order is whatever number the caller sends.  The inexactness of binary
\* floating point is not modelled.

\* The quotient n / d rounded to the nearest integer, halves away from zero
\* (what toFixed does to n / d), for d > 0
RoundHalfUp(n, d) ==
    IF n >= 0 THEN (2 * n + d) \div (2 * d) ELSE -((2 * (-n) + d) \div (2 * d))

\* parseFloat(x.toFixed(MARKET_ORDER_CONFIG.QUANTITY_PRECISION))
ToFixedQuantity(x) == 10 * RoundHalfUp(x, 10)

\* parseFloat(price.toFixed(MARKET_ORDER_CONFIG.PRICE_PRECISION)): price is a
\* number of units of the last digit kept
ToFixedPrice(price) == RoundHalfUp(price, 1)

\* The state of the walk before the first level
WalkStart == [totalCost |-> 0, totalFilled |-> 0, fills |-> <<>>]

\* WalkLevels without the `if (remainingAmount <= 0) break`
RECURSIVE WalkLevelsNoBreak(_, _, _)
WalkLevelsNoBreak(levels, remainingAmount, acc) ==
    IF levels = <<>> THEN acc
    ELSE LET price == Price(levels[1])
             quantity == Quantity(levels[1])
             fillQuantity == Min(remainingAmount, quantity)
         IN  WalkLevelsNoBreak(Tail(levels), remainingAmount - fillQuantity,
                        [totalCost |-> acc.totalCost + fillQuantity * price,
                         totalFilled |-> acc.totalFilled + fillQuantity,
                         fills |-> Append(acc.fills,
                                          [price |-> ToFixedPrice(price),
                                           quantity |-> ToFixedQuantity(fillQuantity)])])

\* WalkLevels that breaks on `remainingAmount < 0`
RECURSIVE WalkLevelsBreakNegative(_, _, _)
WalkLevelsBreakNegative(levels, remainingAmount, acc) ==
    IF levels = <<>> \/ remainingAmount < 0 THEN acc
    ELSE LET price == Price(levels[1])
             quantity == Quantity(levels[1])
             fillQuantity == Min(remainingAmount, quantity)
         IN  WalkLevelsBreakNegative(Tail(levels), remainingAmount - fillQuantity,
                        [totalCost |-> acc.totalCost + fillQuantity * price,
                         totalFilled |-> acc.totalFilled + fillQuantity,
                         fills |-> Append(acc.fills,
                                          [price |-> ToFixedPrice(price),
                                           quantity |-> ToFixedQuantity(fillQuantity)])])

\* WalkLevels that charges the whole level, `quantity * price`, at each level
RECURSIVE WalkLevelsWholeLevelCost(_, _, _)
WalkLevelsWholeLevelCost(levels, remainingAmount, acc) ==
    IF levels = <<>> \/ remainingAmount <= 0 THEN acc
    ELSE LET price == Price(levels[1])
             quantity == Quantity(levels[1])
             fillQuantity == Min(remainingAmount, quantity)
         IN  WalkLevelsWholeLevelCost(Tail(levels), remainingAmount - fillQuantity,
                        [totalCost |-> acc.totalCost + quantity * price,
                         totalFilled |-> acc.totalFilled + fillQuantity,
                         fills |-> Append(acc.fills,
                                          [price |-> ToFixedPrice(price),
                                           quantity |-> ToFixedQuantity(fillQuantity)])])

\* The `for (const [price, quantity] of levels)` loop of simulateMarketBuy and
\* simulateMarketSell, from the given remaining amount and totals
RECURSIVE WalkLevels(_, _, _)
WalkLevels(levels, remainingAmount, acc) ==
    IF levels = <<>> \/ remainingAmount <= 0 THEN acc
    ELSE LET price == Price(levels[1])
             quantity == Quantity(levels[1])
             fillQuantity == Min(remainingAmount, quantity)
         IN  WalkLevels(Tail(levels), remainingAmount - fillQuantity,
                        [totalCost |-> acc.totalCost + fillQuantity * price,
                         totalFilled |-> acc.totalFilled + fillQuantity,
                         fills |-> Append(acc.fills,
                                          [price |-> ToFixedPrice(price),
                                           quantity |-> ToFixedQuantity(fillQuantity)])])

\* NoLiquidity that reports the order as partial
NoLiquidityPartial ==
    [filled |-> 0, avg_price |-> 0, slippage_pct |-> 0, status |-> "partial",
     hasDetails |-> FALSE, details |-> <<>>]

\* The result returned when the consumed side is empty (it has no `details`)
NoLiquidity ==
    [filled |-> 0, avg_price |-> 0, slippage_pct |-> 0, status |-> "rejected",
     hasDetails |-> FALSE, details |-> <<>>]

\* avgPrice, then parseFloat(avgPrice.toFixed(PRICE_PRECISION))
AveragePrice(totalCost, totalFilled) ==
    IF totalFilled > 0 THEN RoundHalfUp(totalCost, totalFilled) ELSE 0

\* SlippagePct that reports the magnitude of the slippage
SlippagePctMagnitude(totalCost, totalFilled, best) ==
    IF totalFilled > 0
    THEN RoundHalfUp((IF totalCost >= best * totalFilled
                      THEN totalCost - best * totalFilled
                      ELSE best * totalFilled - totalCost) * 1000000, totalFilled * best)
    ELSE 0

\* slippagePct, then parseFloat(slippagePct.toFixed(4)): in units of 0.0001 %
SlippagePct(totalCost, totalFilled, best) ==
    IF totalFilled > 0
    THEN RoundHalfUp((totalCost - best * totalFilled) * 1000000, totalFilled * best)
    ELSE 0

\* The status and the returned object
OrderResult(walk, amount, best) ==
    [filled |-> ToFixedQuantity(walk.totalFilled),
     avg_price |-> AveragePrice(walk.totalCost, walk.totalFilled),
     slippage_pct |-> SlippagePct(walk.totalCost, walk.totalFilled, best),
     status |-> IF walk.totalFilled = 0 THEN "rejected"
                ELSE IF walk.totalFilled < amount THEN "partial"
                ELSE "filled",
     hasDetails |-> TRUE,
     details |-> walk.fills]

simulateMarketBuy(orderBook, amount) ==
    IF Len(orderBook.asks) = 0 THEN NoLiquidity
    ELSE OrderResult(WalkLevels(orderBook.asks, amount, WalkStart), amount,
                     Price(orderBook.asks[1]))

\* simulateMarketSell that also rejects when the book has no asks
simulateMarketSellNeedsAsks(orderBook, amount) ==
    IF Len(orderBook.bids) = 0 \/ Len(orderBook.asks) = 0 THEN NoLiquidity
    ELSE OrderResult(WalkLevels(orderBook.bids, amount, WalkStart), amount,
                     Price(orderBook.bids[1]))

simulateMarketSell(orderBook, amount) ==
    IF Len(orderBook.bids) = 0 THEN NoLiquidity
    ELSE OrderResult(WalkLevels(orderBook.bids, amount, WalkStart), amount,
                     Price(orderBook.bids[1]))

\* Books and amounts the simulation is applied to: sides that are empty, hold
\* one level, several levels or a repeated price; amounts that are negative,
\* zero, below, on and between the multiples of the quantity grid
SimBids ==
    { <<>>, << <<50, 20>> >>, << <<50, 10>>, <<48, 30>> >>,
      << <<50, 10>>, <<50, 20>>, <<47, 10>> >> }

SimAsks ==
    { <<>>, << <<51, 20>> >>, << <<51, 10>>, <<52, 20>> >>,
      << <<51, 10>>, <<53, 10>>, <<54, 40>> >> }

SimAmounts == {-10, 0, 4, 5, 10, 14, 15, 20, 30, 60, 70}

\* What the exchange answers in the behaviours with more sockets than the limit
AdmissionBooks == { [bids |-> << <<4, 1>>, <<3, 2>> >>, asks |-> << <<5, 1>>, <<6, 2>> >>] }

\* What the exchange answers in the behaviours that compare a snapshot with the
\* committed book: levels with different quantities, levels with the same
SnapshotBooks ==
    { [bids |-> << <<4, 1>>, <<3, 2>> >>, asks |-> << <<5, 1>>, <<6, 2>> >>],
      [bids |-> << <<4, 2>>, <<3, 2>> >>, asks |-> << <<5, 3>> >>] }

\* What the exchange answers in the behaviours with market orders: a book with
\* two levels a side and one without asks
MarketBooks ==
    { [bids |-> << <<50, 10>>, <<48, 20>> >>, asks |-> << <<51, 10>>, <<52, 30>> >>],
      [bids |-> << <<50, 20>> >>,             asks |-> << >>] }

\* The orders requested, <<side, amount>>: amounts that two levels cover and
\* one that no book covers
MarketOrders == {<<"buy", 14>>, <<"sell", 14>>, <<"buy", 100>>}

\* The order of the behaviours that follow the read of a request only
StoreOrders == {<<"buy", 10>>}

\* A call of simulateMarketBuy or simulateMarketSell (result), followed by a
\* second call with the same arguments (again)
NoSimulation ==
    [pc |-> "none", side |-> "buy", amount |-> 0, book |-> NoBook, result |-> NoLiquidity,
     again |-> NoLiquidity]

\* ------------------------------------------------------------------ state
VARIABLES
    isRunning,          \* OrderBookService.isRunning
    updateInterval,     \* OrderBookService.updateInterval: a timer id, 0 for null
    timers,             \* the intervals set and not cleared (Node's timer list)
    cyc,                \* the executions of updateOrderBook, by number
    now,                \* the clock Date.now() reads
    zsets,              \* Redis: the sorted set at each key
    expires,            \* Redis: whether the key carries a TTL
    keyVer,             \* history: timestamp of the book whose pipeline last wrote the key
    ledger,             \* Redis: the order history keys
    reqQ,               \* connection `client`: pipelines written, not yet fully executed
    replyQ,             \* connection `client`: replies not yet handled by Node
    pubQ,               \* connection `publisher`: PUBLISH commands not yet executed
    pubReplyQ,          \* connection `publisher`: replies not yet handled by Node
    subQ,               \* connection `subscriber`: messages not yet handled by Node
    connectedClients,   \* DepthGateway.connectedClients
    sock,               \* each client's socket
    inbox,              \* what each client has been sent, in order
    market,             \* the calls of MarketController.simulateMarketOrder
    arrived,            \* history: timestamps of the deltas handed to broadcastUpdate
    joinedAt,           \* history: Len(arrived) when the client connected
    stopReturned,       \* history: stopUpdater returned and startUpdater was not called since
    committed,          \* history: the books passed to storeOrderBook, in order
    skipped,            \* history: timestamps of the candidates validateOrderBook refused
    failed,             \* history: the steps at which some cycle's await has rejected
    sim                 \* a call of simulateMarketBuy / simulateMarketSell

schedVars == <<isRunning, updateInterval, timers, stopReturned>>
redisVars == <<zsets, expires, keyVer, ledger>>
clientConn == <<reqQ, replyQ>>
pubConns == <<pubQ, pubReplyQ, subQ>>
gatewayVars == <<connectedClients, sock, inbox, arrived, joinedAt>>
histVars == <<committed, skipped>>

vars == <<schedVars, cyc, now, redisVars, clientConn, pubConns, gatewayVars, market,
          histVars, failed, sim>>

\* An execution of updateOrderBook.  kind: who called it; attempt: the loop
\* variable of fetchOrderBook; delay: what the sleep in progress was called with;
\* book: the fetched book once fetchOrderBook returned;
\* stopped (history): stopUpdater was called while its fetch was in flight.
IdleCycle ==
    [pc |-> "idle", kind |-> "none", attempt |-> 0, delay |-> 0, book |-> NoBook,
     stopped |-> FALSE]

DoneCycle == [IdleCycle EXCEPT !.pc = "done"]

InProgress(c) == cyc[c].pc \notin {"idle", "done"}

HasFreeCycle == \E c \in Cycles : cyc[c].pc = "idle"
FreeCycle == CHOOSE c \in Cycles : cyc[c].pc = "idle" /\ \A d \in 1..(c - 1) : cyc[d].pc # "idle"

\* A call of simulateMarketOrder.  book: what getFullOrderBook returned; vers
\* (history): the versions of the two keys it read; result: what the simulation
\* returned; outcome: "pending", then "result" (the result is returned) or the
\* status of the HttpException thrown.
NewRequest ==
    [pc |-> "new", side |-> "buy", amount |-> 0, book |-> NoBook, vers |-> <<0, 0>>,
     result |-> NoLiquidity, outcome |-> "pending"]

\* The service after construction, before any order is simulated, with the
\* given sockets still to connect
ServiceFor(sockets) ==
    /\ isRunning = FALSE
    /\ updateInterval = 0
    /\ timers = {}
    /\ stopReturned = FALSE
    /\ cyc = [c \in Cycles |-> IdleCycle]
    /\ now = 0
    /\ zsets = [k \in Keys |-> {}]
    /\ expires = [k \in Keys |-> FALSE]
    /\ keyVer = [k \in Keys |-> 0]
    /\ ledger = EmptyLedger
    /\ reqQ = <<>>
    /\ replyQ = <<>>
    /\ pubQ = <<>>
    /\ pubReplyQ = <<>>
    /\ subQ = <<>>
    /\ connectedClients = 0
    /\ sock = [s \in sockets |-> "new"]
    /\ inbox = [s \in sockets |-> <<>>]
    /\ arrived = <<>>
    /\ joinedAt = [s \in sockets |-> 0]
    /\ market = [r \in Requests |-> NewRequest]
    /\ committed = <<>>
    /\ skipped = {}
    /\ failed = {}

ServiceInit == ServiceFor(Clients)

\* The sockets of the behaviour
Sockets == DOMAIN sock

Init ==
    /\ ServiceInit
    /\ sim = NoSimulation

\* A pipeline written to connection `client` (vers, history: for each ZRANGE
\* reply the version of the key it read).
Pipeline(owner, cmds) == [owner |-> owner, cmds |-> cmds, results |-> <<>>, vers |-> <<>>]

\* --------------------------------------------------------- OrderBookService
\* updateOrderBook up to its first await: fetchOrderBook's first attempt is sent.
BeginCycle(c, kind) ==
    cyc' = [cyc EXCEPT ![c] = [pc |-> "fetching", kind |-> kind, attempt |-> 1,
                               delay |-> 0, book |-> NoBook, stopped |-> FALSE]]

\* updateOrderBook returns (normally or through its catch).  The startUpdater call
\* that awaited it resumes and sets the interval.
EndCycle(c) ==
    /\ cyc' = [cyc EXCEPT ![c] = DoneCycle]
    /\ IF cyc[c].kind = "initial"
       THEN /\ timers' = timers \cup {c}
            /\ updateInterval' = c
       ELSE UNCHANGED <<timers, updateInterval>>
    /\ UNCHANGED <<isRunning, stopReturned>>

\* Caught that lets the error out of updateOrderBook: an awaiting startUpdater
\* never reaches setInterval
CaughtRethrown(c) ==
    /\ cyc' = [cyc EXCEPT ![c] = DoneCycle]
    /\ UNCHANGED schedVars

\* The catch block of updateOrderBook: the error is logged and the call returns
Caught(c) == EndCycle(c)

startUpdater ==
    /\ stopReturned' = FALSE
    /\ IF isRunning
       THEN UNCHANGED <<isRunning, cyc>>
       ELSE /\ HasFreeCycle
            /\ isRunning' = TRUE
            /\ BeginCycle(FreeCycle, "initial")
    /\ UNCHANGED <<updateInterval, timers, now, redisVars, clientConn, pubConns,
                   gatewayVars, market, histVars>>
    /\ UNCHANGED <<failed, sim>>

stopUpdater ==
    /\ IF updateInterval # 0
       THEN /\ timers' = timers \ {updateInterval}
            /\ updateInterval' = 0
       ELSE UNCHANGED <<timers, updateInterval>>
    /\ isRunning' = FALSE
    /\ stopReturned' = TRUE
    /\ cyc' = [c \in Cycles |->
                 IF cyc[c].pc \in {"fetching", "sleeping"}
                 THEN [cyc[c] EXCEPT !.stopped = TRUE]
                 ELSE cyc[c]]
    /\ UNCHANGED <<now, redisVars, clientConn, pubConns, gatewayVars, market, histVars>>
    /\ UNCHANGED <<failed, sim>>

\* The callback of setInterval
TimerTick(t) ==
    /\ t \in timers
    /\ HasFreeCycle
    /\ BeginCycle(FreeCycle, "timer")
    /\ UNCHANGED <<schedVars, now, redisVars, clientConn, pubConns, gatewayVars, market,
                   histVars>>
    /\ UNCHANGED <<failed, sim>>

triggerUpdate ==
    /\ HasFreeCycle
    /\ BeginCycle(FreeCycle, "manual")
    /\ UNCHANGED <<schedVars, now, redisVars, clientConn, pubConns, gatewayVars, market,
                   histVars>>
    /\ UNCHANGED <<failed, sim>>

\* ------------------------------------------------ CcxtService.fetchOrderBook
\* Math.pow(base, exponent) for a natural exponent
RECURSIVE Pow(_, _)
Pow(base, exponent) == IF exponent = 0 THEN 1 ELSE base * Pow(base, exponent - 1)

\* The delay fetchOrderBook computes in its catch block after a failed attempt
RetryDelay(attempt) == INITIAL_DELAY_MS * Pow(BACKOFF_MULTIPLIER, attempt - 1)

\* FetchFail that, out of attempts, goes on with an empty book
FetchFailStoresEmpty(c) ==
    /\ cyc[c].pc = "fetching"
    /\ IF cyc[c].attempt < MAX_ATTEMPTS
       THEN /\ cyc' = [cyc EXCEPT ![c].pc = "sleeping",
                                  ![c].delay = RetryDelay(cyc[c].attempt)]
            /\ UNCHANGED <<reqQ, failed>>
       ELSE /\ cyc' = [cyc EXCEPT ![c].pc = "storing"]
            /\ reqQ' = Append(reqQ, Pipeline(<<"cycle", c>>, StoreCommands(NoBook)))
            /\ failed' = failed \cup {"fetch"}
    /\ UNCHANGED <<schedVars, now, redisVars, replyQ, pubConns, gatewayVars, market,
                   histVars, sim>>

\* FetchFailWithin that waits and retries after the last attempt too
FetchFailOneMore(c, maxAttempts) ==
    /\ cyc[c].pc = "fetching"
    /\ IF cyc[c].attempt <= maxAttempts
       THEN /\ cyc' = [cyc EXCEPT ![c].pc = "sleeping",
                                  ![c].delay = RetryDelay(cyc[c].attempt)]
            /\ UNCHANGED <<schedVars, failed>>
       ELSE /\ Caught(c)
            /\ failed' = failed \cup {"fetch"}
    /\ UNCHANGED sim
    /\ UNCHANGED <<now, redisVars, clientConn, pubConns, gatewayVars, market, histVars>>

\* FetchFailWithin that waits the same delay after every attempt
FetchFailSameDelay(c, maxAttempts) ==
    /\ cyc[c].pc = "fetching"
    /\ IF cyc[c].attempt < maxAttempts
       THEN /\ cyc' = [cyc EXCEPT ![c].pc = "sleeping", ![c].delay = INITIAL_DELAY_MS]
            /\ UNCHANGED <<schedVars, failed>>
       ELSE /\ Caught(c)
            /\ failed' = failed \cup {"fetch"}
    /\ UNCHANGED sim
    /\ UNCHANGED <<now, redisVars, clientConn, pubConns, gatewayVars, market, histVars>>

\* exchange.fetchOrderBook rejects, RETRY_CONFIG.MAX_ATTEMPTS being maxAttempts:
\* sleep and retry, or give up after the last attempt (the error is caught by
\* updateOrderBook).
FetchFailWithin(c, maxAttempts) ==
    /\ cyc[c].pc = "fetching"
    /\ IF cyc[c].attempt < maxAttempts
       THEN /\ cyc' = [cyc EXCEPT ![c].pc = "sleeping",
                                  ![c].delay = RetryDelay(cyc[c].attempt)]
            /\ UNCHANGED <<schedVars, failed>>
       ELSE /\ Caught(c)
            /\ failed' = failed \cup {"fetch"}
    /\ UNCHANGED sim
    /\ UNCHANGED <<now, redisVars, clientConn, pubConns, gatewayVars, market, histVars>>

\* exchange.fetchOrderBook rejects
FetchFail(c) == FetchFailWithin(c, MAX_ATTEMPTS)

\* RetryWake that does not count the attempt
RetryWakeUncounted(c) ==
    /\ cyc[c].pc = "sleeping"
    /\ cyc' = [cyc EXCEPT ![c].pc = "fetching", ![c].delay = 0]
    /\ UNCHANGED <<schedVars, now, redisVars, clientConn, pubConns, gatewayVars, market,
                   histVars>>
    /\ UNCHANGED <<failed, sim>>

\* sleep(delay) resolves: the next attempt is sent
RetryWake(c) ==
    /\ cyc[c].pc = "sleeping"
    /\ cyc' = [cyc EXCEPT ![c].pc = "fetching", ![c].attempt = @ + 1, ![c].delay = 0]
    /\ UNCHANGED <<schedVars, now, redisVars, clientConn, pubConns, gatewayVars, market,
                   histVars>>
    /\ UNCHANGED <<failed, sim>>

\* FetchOk without the early return on a failed validation
FetchOkUnvalidated(c, raw, hasTimestamp) ==
    /\ cyc[c].pc = "fetching"
    /\ now' = now + 1
    /\ LET ccxtBook == [bids |-> raw.bids, asks |-> raw.asks,
                        timestamp |-> IF hasTimestamp THEN now' ELSE 0]
           orderBook == transformOrderBook(ccxtBook, now')
       IN  /\ cyc' = [cyc EXCEPT ![c].pc = "storing", ![c].book = orderBook]
           /\ reqQ' = Append(reqQ, Pipeline(<<"cycle", c>>, StoreCommands(orderBook)))
           /\ skipped' = IF validateOrderBook(orderBook)
                         THEN skipped
                         ELSE skipped \cup {orderBook.timestamp}
           /\ committed' = IF validateOrderBook(orderBook)
                           THEN Append(committed, orderBook)
                           ELSE committed
           /\ UNCHANGED schedVars
    /\ UNCHANGED <<redisVars, replyQ, pubConns, gatewayVars, market>>
    /\ UNCHANGED <<failed, sim>>

\* exchange.fetchOrderBook resolves with raw (hasTimestamp: the exchange stamped
\* it): fetchOrderBook transforms it and returns; updateOrderBook validates the
\* book and, if valid, calls storeOrderBook (up to `await pipeline.exec()`).
FetchOk(c, raw, hasTimestamp) ==
    /\ cyc[c].pc = "fetching"
    /\ now' = now + 1
    /\ LET ccxtBook == [bids |-> raw.bids, asks |-> raw.asks,
                        timestamp |-> IF hasTimestamp THEN now' ELSE 0]
           orderBook == transformOrderBook(ccxtBook, now')
       IN  IF ~validateOrderBook(orderBook)
           THEN /\ EndCycle(c)
                /\ skipped' = skipped \cup {orderBook.timestamp}
                /\ UNCHANGED <<reqQ, committed>>
           ELSE /\ cyc' = [cyc EXCEPT ![c].pc = "storing", ![c].book = orderBook]
                /\ reqQ' = Append(reqQ, Pipeline(<<"cycle", c>>, StoreCommands(orderBook)))
                /\ committed' = Append(committed, orderBook)
                /\ UNCHANGED <<schedVars, skipped>>
    /\ UNCHANGED <<redisVars, replyQ, pubConns, gatewayVars, market>>
    /\ UNCHANGED <<failed, sim>>

\* -------------------------------------------------------------- Redis server
\* The server executes the next command of connection `client`.
RedisExec ==
    /\ reqQ # <<>>
    /\ LET p == Head(reqQ)
           cmd == Head(p.cmds)
           k == cmd.key
           q == [p EXCEPT !.cmds = Tail(p.cmds),
                          !.results = IF cmd.op = "ZRANGE"
                                      THEN Append(@, ZRange(zsets[k], cmd.stop))
                                      ELSE @,
                          !.vers = IF cmd.op = "ZRANGE" THEN Append(@, keyVer[k]) ELSE @]
       IN  /\ IF k \in Keys
              THEN /\ zsets' = CASE cmd.op = "DEL" -> [zsets EXCEPT ![k] = {}]
                                 [] cmd.op = "ZADD" -> [zsets EXCEPT ![k] = ZAdd(@, cmd.args)]
                                 [] OTHER -> zsets
                   /\ expires' = CASE cmd.op = "DEL" -> [expires EXCEPT ![k] = FALSE]
                                   [] cmd.op = "EXPIRE" ->
                                          [expires EXCEPT ![k] = (zsets[k] # {})]
                                   [] OTHER -> expires
                   /\ keyVer' = IF cmd.op \in {"DEL", "ZADD"}
                                THEN [keyVer EXCEPT ![k] = cmd.ver]
                                ELSE keyVer
                   /\ UNCHANGED ledger
              ELSE /\ ledger' = LedgerExec(ledger, cmd)
                   /\ UNCHANGED <<zsets, expires, keyVer>>
           /\ IF q.cmds = <<>>
              THEN /\ reqQ' = Tail(reqQ)
                   /\ replyQ' = Append(replyQ, q)
              ELSE /\ reqQ' = <<q>> \o Tail(reqQ)
                   /\ UNCHANGED replyQ
    /\ UNCHANGED <<schedVars, cyc, now, pubConns, gatewayVars, market, histVars>>
    /\ UNCHANGED <<failed, sim>>

\* The server executes the next PUBLISH of connection `publisher`: the message
\* goes to the subscribed connection and the reply to the publisher.
RedisPublish ==
    /\ pubQ # <<>>
    /\ subQ' = Append(subQ, Head(pubQ).message)
    /\ pubReplyQ' = Append(pubReplyQ, Head(pubQ).cycle)
    /\ pubQ' = Tail(pubQ)
    /\ UNCHANGED <<schedVars, cyc, now, redisVars, clientConn, gatewayVars, market,
                   histVars>>
    /\ UNCHANGED <<failed, sim>>

\* ------------------------------------------ replies on connection `client`
\* Message sent to a client (history field vers: the versions of the two keys a
\* snapshot was read from; for a delta the timestamp of its book).
Msg(type, data, vers) == [type |-> type, data |-> data, vers |-> vers]

\* StoreReply that publishes the whole book
StoreReplyWholeBook(c) ==
    /\ cyc' = [cyc EXCEPT ![c].pc = "publishing"]
    /\ pubQ' = Append(pubQ, [cycle |-> c, message |-> JsonStringify(cyc[c].book)])
    /\ UNCHANGED <<reqQ, gatewayVars, market>>

\* `await pipeline.exec()` of storeOrderBook resolves: updateOrderBook cuts the
\* top levels and calls publishUpdate (up to `await publisher.publish`).
StoreReply(c) ==
    LET orderBook == cyc[c].book
        topLevels == [bids |-> Slice(orderBook.bids, TOP_LEVELS),
                      asks |-> Slice(orderBook.asks, TOP_LEVELS),
                      timestamp |-> orderBook.timestamp]
    IN  /\ cyc' = [cyc EXCEPT ![c].pc = "publishing"]
        /\ pubQ' = Append(pubQ, [cycle |-> c, message |-> JsonStringify(topLevels)])
        /\ UNCHANGED <<reqQ, gatewayVars, market>>

\* `await pipeline.exec()` of getOrderBook resolves in handleConnection: the
\* snapshot is emitted to the client (a closed socket drops it).
SnapshotReply(s, p) ==
    /\ IF sock[s] = "awaiting"
       THEN /\ inbox' = [inbox EXCEPT ![s] =
                            Append(@, Msg("snapshot", ReadResult(p.results, now), p.vers))]
            /\ sock' = [sock EXCEPT ![s] = "open"]
       ELSE UNCHANGED <<inbox, sock>>
    /\ UNCHANGED <<cyc, pubQ, reqQ, connectedClients, arrived, joinedAt, market>>

\* The record simulateMarketOrder passes to storeOrder (the id is unique: it
\* stands for `order:${Date.now()}:${Math.random()...}`)
OrderRecord(r, side, amount, result, dateNow) ==
    [id |-> r, side |-> side, amount |-> amount, filled |-> result.filled,
     avg_price |-> result.avg_price, slippage_pct |-> result.slippage_pct,
     status |-> result.status,
     total_cost_or_revenue |-> result.filled * result.avg_price,
     timestamp |-> dateNow]

\* What simulateMarketOrder does once the order history is written or has
\* failed to be: a rejected result is thrown as 400, any other is returned
Respond(r) ==
    market' = [market EXCEPT ![r].pc = "done",
                             ![r].outcome = IF market[r].result.status = "rejected"
                                            THEN "400" ELSE "result"]

\* MarketReply without the check that the book is available
MarketReplyUnchecked(r, p) ==
    LET orderBook == ReadResult(p.results, now)
        result == IF market[r].side = "buy"
                  THEN simulateMarketBuy(orderBook, market[r].amount)
                  ELSE simulateMarketSell(orderBook, market[r].amount)
    IN  /\ market' = [market EXCEPT ![r].pc = "recording",
                                    ![r].book = orderBook,
                                    ![r].vers = p.vers,
                                    ![r].result = result]
        /\ reqQ' = Append(reqQ,
                          Pipeline(<<"history", r>>,
                                   HistoryCommands(OrderRecord(r, market[r].side,
                                                               market[r].amount,
                                                               result, now))))
        /\ UNCHANGED <<cyc, pubQ, gatewayVars>>

\* `await pipeline.exec()` of getFullOrderBook resolves in simulateMarketOrder:
\* a book with both sides empty is answered with 503; otherwise the order is
\* simulated and storeOrder is called (up to its `await pipeline.exec()`).
MarketReply(r, p) ==
    LET orderBook == ReadResult(p.results, now)
        result == IF market[r].side = "buy"
                  THEN simulateMarketBuy(orderBook, market[r].amount)
                  ELSE simulateMarketSell(orderBook, market[r].amount)
    IN  /\ IF Len(orderBook.bids) = 0 /\ Len(orderBook.asks) = 0
           THEN /\ market' = [market EXCEPT ![r].pc = "done",
                                            ![r].book = orderBook,
                                            ![r].vers = p.vers,
                                            ![r].outcome = "503"]
                /\ UNCHANGED reqQ
           ELSE /\ market' = [market EXCEPT ![r].pc = "recording",
                                            ![r].book = orderBook,
                                            ![r].vers = p.vers,
                                            ![r].result = result]
                /\ reqQ' = Append(reqQ,
                                  Pipeline(<<"history", r>>,
                                           HistoryCommands(OrderRecord(r, market[r].side,
                                                                       market[r].amount,
                                                                       result, now))))
        /\ UNCHANGED <<cyc, pubQ, gatewayVars>>

\* `await pipeline.exec()` of storeOrder resolves in simulateMarketOrder
HistoryReply(r) ==
    /\ Respond(r)
    /\ UNCHANGED <<cyc, pubQ, reqQ, gatewayVars>>

ClientReply ==
    /\ replyQ # <<>>
    /\ replyQ' = Tail(replyQ)
    /\ LET p == Head(replyQ)
       IN  CASE p.owner[1] = "cycle" -> StoreReply(p.owner[2])
             [] p.owner[1] = "conn" -> SnapshotReply(p.owner[2], p)
             [] p.owner[1] = "market" -> MarketReply(p.owner[2], p)
             [] OTHER -> HistoryReply(p.owner[2])
    /\ UNCHANGED <<schedVars, now, redisVars, pubReplyQ, subQ, histVars>>
    /\ UNCHANGED <<failed, sim>>

\* `await publisher.publish` resolves: publishUpdate and updateOrderBook return.
PublishReply ==
    /\ pubReplyQ # <<>>
    /\ pubReplyQ' = Tail(pubReplyQ)
    /\ EndCycle(Head(pubReplyQ))
    /\ UNCHANGED <<now, redisVars, clientConn, pubQ, subQ, gatewayVars, market, histVars>>
    /\ UNCHANGED <<failed, sim>>

\* ---------------------------------------------------- rejected Redis calls
\* `await pipeline.exec()` of storeOrderBook rejects (the connection failed):
\* the commands of the pipeline not yet executed are lost, or only its reply is.
\* storeOrderBook logs and rethrows, updateOrderBook catches.
StoreFail(c) ==
    /\ cyc[c].pc = "storing"
    /\ reqQ' = SelectSeq(reqQ, LAMBDA p : p.owner # <<"cycle", c>>)
    /\ replyQ' = SelectSeq(replyQ, LAMBDA p : p.owner # <<"cycle", c>>)
    /\ Caught(c)
    /\ failed' = failed \cup {"store"}
    /\ UNCHANGED <<now, redisVars, pubConns, gatewayVars, market, histVars, sim>>

\* `await this.publisher.publish(...)` rejects: the PUBLISH is lost, or only its
\* reply is.  publishUpdate logs and rethrows, updateOrderBook catches.
PublishFail(c) ==
    /\ cyc[c].pc = "publishing"
    /\ pubQ' = SelectSeq(pubQ, LAMBDA m : m.cycle # c)
    /\ pubReplyQ' = SelectSeq(pubReplyQ, LAMBDA d : d # c)
    /\ Caught(c)
    /\ failed' = failed \cup {"publish"}
    /\ UNCHANGED <<now, redisVars, clientConn, subQ, gatewayVars, market, histVars, sim>>

\* `await pipeline.exec()` of getFullOrderBook rejects: getFullOrderBook logs and
\* rethrows, simulateMarketOrder catches an error that is no HttpException and
\* throws 500.
ReadFail(r) ==
    /\ market[r].pc = "reading"
    /\ reqQ' = SelectSeq(reqQ, LAMBDA p : p.owner # <<"market", r>>)
    /\ replyQ' = SelectSeq(replyQ, LAMBDA p : p.owner # <<"market", r>>)
    /\ market' = [market EXCEPT ![r].pc = "done", ![r].outcome = "500"]
    /\ failed' = failed \cup {"read"}
    /\ UNCHANGED <<schedVars, cyc, now, redisVars, pubConns, gatewayVars, histVars, sim>>

\* SnapshotFail that disconnects the client it sends the error to
SnapshotFailDisconnects(s) ==
    /\ sock[s] = "awaiting"
    /\ reqQ' = SelectSeq(reqQ, LAMBDA p : p.owner # <<"conn", s>>)
    /\ replyQ' = SelectSeq(replyQ, LAMBDA p : p.owner # <<"conn", s>>)
    /\ inbox' = [inbox EXCEPT ![s] = Append(@, Msg("error", NoBook, <<0, 0>>))]
    /\ sock' = [sock EXCEPT ![s] = "rejected"]
    /\ failed' = failed \cup {"snapshot"}
    /\ UNCHANGED <<schedVars, cyc, now, redisVars, pubConns, connectedClients, arrived,
                   joinedAt, market, histVars, sim>>

\* `await pipeline.exec()` of getOrderBook rejects: getOrderBook logs and
\* rethrows, the catch of handleConnection emits an error to the client.
SnapshotFail(s) ==
    /\ sock[s] = "awaiting"
    /\ reqQ' = SelectSeq(reqQ, LAMBDA p : p.owner # <<"conn", s>>)
    /\ replyQ' = SelectSeq(replyQ, LAMBDA p : p.owner # <<"conn", s>>)
    /\ inbox' = [inbox EXCEPT ![s] = Append(@, Msg("error", NoBook, <<0, 0>>))]
    /\ sock' = [sock EXCEPT ![s] = "open"]
    /\ failed' = failed \cup {"snapshot"}
    /\ UNCHANGED <<schedVars, cyc, now, redisVars, pubConns, connectedClients, arrived,
                   joinedAt, market, histVars, sim>>

\* HistoryFail that lets the error of storeOrder reach the outer catch
HistoryFailThrown(r) ==
    /\ market[r].pc = "recording"
    /\ reqQ' = SelectSeq(reqQ, LAMBDA p : p.owner # <<"history", r>>)
    /\ replyQ' = SelectSeq(replyQ, LAMBDA p : p.owner # <<"history", r>>)
    /\ market' = [market EXCEPT ![r].pc = "done", ![r].outcome = "500"]
    /\ failed' = failed \cup {"history"}
    /\ UNCHANGED <<schedVars, cyc, now, redisVars, pubConns, gatewayVars, histVars, sim>>

\* `await pipeline.exec()` of storeOrder rejects: storeOrder logs and rethrows,
\* simulateMarketOrder's inner catch warns and goes on.
HistoryFail(r) ==
    /\ market[r].pc = "recording"
    /\ reqQ' = SelectSeq(reqQ, LAMBDA p : p.owner # <<"history", r>>)
    /\ replyQ' = SelectSeq(replyQ, LAMBDA p : p.owner # <<"history", r>>)
    /\ Respond(r)
    /\ failed' = failed \cup {"history"}
    /\ UNCHANGED <<schedVars, cyc, now, redisVars, pubConns, gatewayVars, histVars, sim>>

\* Redis removes a key whose TTL (REDIS_CONFIG.KEY_TTL) has run out
KeyExpires(k) ==
    /\ expires[k]
    /\ zsets' = [zsets EXCEPT ![k] = {}]
    /\ expires' = [expires EXCEPT ![k] = FALSE]
    /\ UNCHANGED <<keyVer, ledger>>
    /\ UNCHANGED <<schedVars, cyc, now, clientConn, pubConns, gatewayVars, market,
                   histVars, failed, sim>>

\* Time passes: the clock Date.now() reads advances
Tick ==
    /\ now < MaxClock
    /\ now' = now + 1
    /\ UNCHANGED <<schedVars, cyc, redisVars, clientConn, pubConns, gatewayVars, market,
                   histVars, failed, sim>>

\* -------------------------------------------------------- MarketController
\* A request that passed MarketOrderRequestSchema: simulateMarketOrder up to
\* `await this.redisService.getFullOrderBook()`
simulateMarketOrder(r, side, amount) ==
    /\ market[r].pc = "new"
    /\ side \in {"buy", "sell"}
    /\ amount > 0 /\ amount >= MIN_ORDER_SIZE /\ amount <= MAX_ORDER_SIZE
    /\ market' = [market EXCEPT ![r].pc = "reading", ![r].side = side, ![r].amount = amount]
    /\ reqQ' = Append(reqQ, Pipeline(<<"market", r>>, ReadCommands(0)))
    /\ UNCHANGED <<schedVars, cyc, now, redisVars, replyQ, pubConns, gatewayVars, histVars>>
    /\ UNCHANGED <<failed, sim>>

\* simulate that takes the first level it fills out of the book
simulateConsuming ==
    /\ sim.pc = "new"
    /\ sim' = [sim EXCEPT !.pc = "done",
                          !.result = IF sim.side = "buy"
                                     THEN simulateMarketBuy(sim.book, sim.amount)
                                     ELSE simulateMarketSell(sim.book, sim.amount),
                          !.book = IF sim.amount <= 0 THEN @
                                   ELSE IF sim.side = "buy"
                                        THEN [@ EXCEPT !.asks = SubSeq(@, 2, Len(@))]
                                        ELSE [@ EXCEPT !.bids = SubSeq(@, 2, Len(@))]]
    /\ UNCHANGED <<schedVars, cyc, now, redisVars, clientConn, pubConns, gatewayVars,
                   market, histVars, failed>>

\* The same function is called once more with the same book and amount
simulateTwice ==
    /\ sim.pc = "done"
    /\ sim' = [sim EXCEPT !.pc = "twice",
                          !.again = IF sim.side = "buy"
                                    THEN simulateMarketBuy(sim.book, sim.amount)
                                    ELSE simulateMarketSell(sim.book, sim.amount)]
    /\ UNCHANGED <<schedVars, cyc, now, redisVars, clientConn, pubConns, gatewayVars,
                   market, histVars, failed>>

\* simulateMarketOrder calls simulateMarketBuy or simulateMarketSell on the book
simulate ==
    /\ sim.pc = "new"
    /\ sim' = [sim EXCEPT !.pc = "done",
                          !.result = IF sim.side = "buy"
                                     THEN simulateMarketBuy(sim.book, sim.amount)
                                     ELSE simulateMarketSell(sim.book, sim.amount)]
    /\ UNCHANGED <<schedVars, cyc, now, redisVars, clientConn, pubConns, gatewayVars,
                   market, histVars, failed>>

\* ------------------------------------------------------------ DepthGateway
\* Sockets server.emit reaches: those of the namespace, from the connection
\* event until the disconnect.
Joined == {s \in Sockets : sock[s] \in {"awaiting", "open"}}

\* handleConnection that admits one client more than the limit
handleConnectionOneMore(s) ==
    /\ sock[s] = "new"
    /\ \A r \in 1..(s - 1) : sock[r] # "new"
    /\ connectedClients' = connectedClients + 1
    /\ joinedAt' = [joinedAt EXCEPT ![s] = Len(arrived)]
    /\ IF connectedClients' > MAX_CONNECTIONS + 1
       THEN /\ inbox' = [inbox EXCEPT ![s] = Append(@, Msg("error", NoBook, <<0, 0>>))]
            /\ sock' = [sock EXCEPT ![s] = "rejected"]
            /\ UNCHANGED reqQ
       ELSE /\ sock' = [sock EXCEPT ![s] = "awaiting"]
            /\ reqQ' = Append(reqQ, Pipeline(<<"conn", s>>, ReadCommands(SNAPSHOT_LIMIT)))
            /\ UNCHANGED inbox
    /\ UNCHANGED <<schedVars, cyc, now, redisVars, replyQ, pubConns, arrived, market,
                   histVars>>
    /\ UNCHANGED <<failed, sim>>

\* handleConnection up to its return or its first await
handleConnection(s) ==
    /\ sock[s] = "new"
    /\ \A r \in 1..(s - 1) : sock[r] # "new"
    /\ connectedClients' = connectedClients + 1
    /\ joinedAt' = [joinedAt EXCEPT ![s] = Len(arrived)]
    /\ IF connectedClients' > MAX_CONNECTIONS
       THEN /\ inbox' = [inbox EXCEPT ![s] = Append(@, Msg("error", NoBook, <<0, 0>>))]
            /\ sock' = [sock EXCEPT ![s] = "rejected"]
            /\ UNCHANGED reqQ
       ELSE /\ sock' = [sock EXCEPT ![s] = "awaiting"]
            /\ reqQ' = Append(reqQ, Pipeline(<<"conn", s>>, ReadCommands(SNAPSHOT_LIMIT)))
            /\ UNCHANGED inbox
    /\ UNCHANGED <<schedVars, cyc, now, redisVars, replyQ, pubConns, arrived, market,
                   histVars>>
    /\ UNCHANGED <<failed, sim>>

\* handleDisconnect that counts down for admitted sockets only
handleDisconnectAdmitted(s) ==
    /\ sock[s] \in {"awaiting", "open", "rejected"}
    /\ connectedClients' = IF sock[s] = "rejected" THEN connectedClients
                           ELSE connectedClients - 1
    /\ sock' = [sock EXCEPT ![s] = "closed"]
    /\ inbox' = [inbox EXCEPT ![s] = <<>>]
    /\ joinedAt' = [joinedAt EXCEPT ![s] = 0]
    /\ UNCHANGED <<schedVars, cyc, now, redisVars, clientConn, pubConns, arrived, market,
                   histVars>>
    /\ UNCHANGED <<failed, sim>>

\* The socket's disconnect event: handleDisconnect
handleDisconnect(s) ==
    /\ sock[s] \in {"awaiting", "open", "rejected"}
    /\ connectedClients' = connectedClients - 1
    /\ sock' = [sock EXCEPT ![s] = "closed"]
    /\ inbox' = [inbox EXCEPT ![s] = <<>>]
    /\ joinedAt' = [joinedAt EXCEPT ![s] = 0]
    /\ UNCHANGED <<schedVars, cyc, now, redisVars, clientConn, pubConns, arrived, market,
                   histVars>>
    /\ UNCHANGED <<failed, sim>>

\* handleDisconnect is called once more for a socket whose disconnect it has
\* handled: the handler does not look at the socket
handleDisconnectAgain(s) ==
    /\ sock[s] = "closed"
    /\ connectedClients' = connectedClients - 1
    /\ sock' = [sock EXCEPT ![s] = "closed twice"]
    /\ UNCHANGED <<inbox, joinedAt>>
    /\ UNCHANGED <<schedVars, cyc, now, redisVars, clientConn, pubConns, arrived, market,
                   histVars>>
    /\ UNCHANGED <<failed, sim>>

\* broadcastUpdate that, with no client connected, keeps the delta for the
\* sockets still to connect
broadcastUpdateRetained(orderBook) ==
    inbox' = [s \in Sockets |->
                IF s \in Joined \/ (connectedClients = 0 /\ sock[s] = "new")
                THEN Append(inbox[s],
                            Msg("delta",
                                [bids |-> orderBook.bids, asks |-> orderBook.asks,
                                 timestamp |-> orderBook.timestamp],
                                <<orderBook.timestamp, orderBook.timestamp>>))
                ELSE inbox[s]]

\* broadcastUpdate that takes a single connected client for none
broadcastUpdateSeveral(orderBook) ==
    IF connectedClients <= 1
    THEN UNCHANGED inbox
    ELSE inbox' = [s \in Sockets |->
                     IF s \in Joined
                     THEN Append(inbox[s],
                                 Msg("delta",
                                     [bids |-> orderBook.bids, asks |-> orderBook.asks,
                                      timestamp |-> orderBook.timestamp],
                                     <<orderBook.timestamp, orderBook.timestamp>>))
                     ELSE inbox[s]]

\* broadcastUpdate
broadcastUpdate(orderBook) ==
    IF connectedClients = 0
    THEN UNCHANGED inbox
    ELSE inbox' = [s \in Sockets |->
                     IF s \in Joined
                     THEN Append(inbox[s],
                                 Msg("delta",
                                     [bids |-> orderBook.bids, asks |-> orderBook.asks,
                                      timestamp |-> orderBook.timestamp],
                                     <<orderBook.timestamp, orderBook.timestamp>>))
                     ELSE inbox[s]]

\* The 'message' handler subscribeToUpdates installs: parse, then the callback
SubscriberMessage ==
    /\ subQ # <<>>
    /\ subQ' = Tail(subQ)
    /\ LET orderBook == JsonParse(Head(subQ))
       IN  /\ broadcastUpdate(orderBook)
           /\ arrived' = Append(arrived, orderBook.timestamp)
    /\ UNCHANGED <<schedVars, cyc, now, redisVars, clientConn, pubQ, pubReplyQ,
                   connectedClients, sock, joinedAt, market, histVars>>
    /\ UNCHANGED <<failed, sim>>

\* ---------------------------------------------------------- specifications
\* The steps of an update cycle once it has started, and of Redis.
CycleNext(feed) ==
    \/ \E c \in Cycles : FetchFail(c)
    \/ \E c \in Cycles : RetryWake(c)
    \/ \E c \in Cycles, raw \in feed, hasTimestamp \in BOOLEAN : FetchOk(c, raw, hasTimestamp)
    \/ RedisExec
    \/ RedisPublish
    \/ ClientReply
    \/ PublishReply
    \/ SubscriberMessage

SchedulerNext ==
    \/ startUpdater
    \/ stopUpdater
    \/ triggerUpdate
    \/ \E t \in Cycles : TimerTick(t)

GatewayNext ==
    \/ \E s \in Sockets : handleConnection(s)
    \/ \E s \in Sockets : handleDisconnect(s)

\* Market-order requests with the given <<side, amount>>.
MarketNext(orders) ==
    \E r \in Requests, order \in orders : simulateMarketOrder(r, order[1], order[2])

\* The whole service.
Next ==
    \/ SchedulerNext
    \/ CycleNext(RawBooks)
    \/ GatewayNext
    \/ MarketNext(MarketOrders)

Spec == Init /\ [][Next]_vars

\* The updater alone: no client connects and no order is simulated.
UpdaterNext ==
    \/ SchedulerNext
    \/ CycleNext(RawBooks)

SpecUpdater == Init /\ [][UpdaterNext]_vars

\* The store and its readers: cycles are started by triggerUpdate only.
StoreNext ==
    \/ triggerUpdate
    \/ CycleNext(RawBooks)
    \/ MarketNext(StoreOrders)

SpecStore == Init /\ [][StoreNext]_vars

\* The gateway and the cycles that feed it, started by triggerUpdate only.
ChannelNext ==
    \/ triggerUpdate
    \/ CycleNext(FeedBooks)
    \/ GatewayNext

SpecGateway == Init /\ [][ChannelNext]_vars


\* The updater with Redis calls that may reject.
FaultsNext ==
    \/ SchedulerNext
    \/ CycleNext(FeedBooks)
    \/ \E c \in Cycles : StoreFail(c)
    \/ \E c \in Cycles : PublishFail(c)

SpecFaults == Init /\ [][FaultsNext]_vars

\* Market-order requests against a store that update cycles fill and whose
\* keys may expire; reads of the book and writes of the history may reject.
OrdersNext ==
    \/ triggerUpdate
    \/ CycleNext(MarketBooks)
    \/ MarketNext(MarketOrders)
    \/ \E r \in Requests : ReadFail(r)
    \/ \E r \in Requests : HistoryFail(r)
    \/ \E k \in Keys : KeyExpires(k)

SpecMarket == Init /\ [][OrdersNext]_vars

\* The gateway with one socket more than it admits, and the cycles that feed it.
AdmissionSockets == 1..(MAX_CONNECTIONS + 1)

AdmissionInit ==
    /\ ServiceFor(AdmissionSockets)
    /\ sim = NoSimulation

AdmissionNext ==
    \/ triggerUpdate
    \/ CycleNext(AdmissionBooks)
    \/ GatewayNext

SpecAdmission == AdmissionInit /\ [][AdmissionNext]_vars

\* Sockets arriving, being refused and leaving, two more than the limit admits.
SlotSockets == 1..(MAX_CONNECTIONS + 2)

SlotInit ==
    /\ ServiceFor(SlotSockets)
    /\ sim = NoSimulation

SlotNext ==
    \/ GatewayNext
    \/ RedisExec
    \/ ClientReply

SpecSlots == SlotInit /\ [][SlotNext]_vars

\* The gateway when the snapshot read of a connecting client may reject.
SnapshotFaultsNext ==
    \/ triggerUpdate
    \/ CycleNext(AdmissionBooks)
    \/ GatewayNext
    \/ \E s \in Sockets : SnapshotFail(s)

SpecSnapshotFaults == Init /\ [][SnapshotFaultsNext]_vars

\* The gateway when handleDisconnect may be called twice for a socket.
UnsubscribeNext ==
    \/ triggerUpdate
    \/ CycleNext(AdmissionBooks)
    \/ GatewayNext
    \/ \E s \in Sockets : handleDisconnectAgain(s)

SpecUnsubscribe == Init /\ [][UnsubscribeNext]_vars

\* The gateway's reads of the store, getOrderBook(SNAPSHOT_LIMIT), and the
\* cycles that fill it.
SnapshotNext ==
    \/ triggerUpdate
    \/ CycleNext(SnapshotBooks)
    \/ GatewayNext

SpecSnapshot == Init /\ [][SnapshotNext]_vars

\* The simulation applied to one book and one amount.
SimulateInit ==
    /\ ServiceInit
    /\ \E side \in {"buy", "sell"}, amount \in SimAmounts, bids \in SimBids, asks \in SimAsks :
           sim = [pc |-> "new", side |-> side, amount |-> amount,
                  book |-> [bids |-> bids, asks |-> asks, timestamp |-> 0],
                  result |-> NoLiquidity, again |-> NoLiquidity]

SimulateNext ==
    \/ simulate
    \/ simulateTwice

SpecSimulate == SimulateInit /\ [][SimulateNext]_vars

\* ------------------------------------------------------------------ claims
StrictlyDescending(levels) ==
    \A i \in 2..Len(levels) : Price(levels[i - 1]) > Price(levels[i])

StrictlyAscending(levels) ==
    \A i \in 2..Len(levels) : Price(levels[i - 1]) < Price(levels[i])

Uncrossed(orderBook) ==
    (orderBook.bids # <<>> /\ orderBook.asks # <<>>)
        => Price(orderBook.bids[1]) < Price(orderBook.asks[1])

SameLevels(a, b) == a.bids = b.bids /\ a.asks = b.asks

\* The committed book with timestamp t
CommittedAt(t) == CHOOSE b \in {committed[i] : i \in 1..Len(committed)} : b.timestamp = t

CommittedTimestamps == [i \in 1..Len(committed) |-> committed[i].timestamp]

\* C1: every book passed to storeOrderBook has bids strictly descending by
\* price, asks strictly ascending by price and, when both sides are non-empty,
\* its best bid below its best ask.
C1_CommittedBooksStrict ==
    \A i \in 1..Len(committed) :
        /\ StrictlyDescending(committed[i].bids)
        /\ StrictlyAscending(committed[i].asks)
        /\ Uncrossed(committed[i])

\* C2: a cycle whose candidate fails validateOrderBook is skipped as a whole:
\* the step that refuses the candidate changes neither the store nor any Redis
\* connection, and the candidate's timestamp never appears on a store command,
\* on a key, in a published message or among the committed books.
C2_NoTraceOf(t) ==
    /\ \A k \in Keys : keyVer[k] # t
    /\ \A i \in 1..Len(reqQ) : \A j \in 1..Len(reqQ[i].cmds) : reqQ[i].cmds[j].ver # t
    /\ \A i \in 1..Len(pubQ) : JsonParse(pubQ[i].message).timestamp # t
    /\ \A i \in 1..Len(subQ) : JsonParse(subQ[i]).timestamp # t
    /\ \A i \in 1..Len(arrived) : arrived[i] # t
    /\ \A i \in 1..Len(committed) : committed[i].timestamp # t
    /\ \A c \in Cycles : cyc[c].book.timestamp # t

C2_SkipStep ==
    skipped' # skipped =>
        /\ redisVars' = redisVars
        /\ clientConn' = clientConn
        /\ pubConns' = pubConns
        /\ \A c \in Cycles : cyc'[c].pc \in {"storing", "publishing"}
                                 => cyc[c].pc \in {"storing", "publishing"}

C2_InvalidCycleSkipped ==
    /\ [](\A t \in skipped : C2_NoTraceOf(t))
    /\ [][C2_SkipStep]_vars

\* A candidate was refused while an earlier committed book was in the store,
\* which still holds that book's entries.
C2_Witness ==
    \E t \in skipped : \E i \in 1..Len(committed) :
        /\ committed[i].timestamp < t
        /\ \A k \in Keys : keyVer[k] = committed[i].timestamp
        /\ zsets[BIDS_KEY] # {}
        /\ reqQ = <<>>

\* getFullOrderBook has returned a book to request r
HasRead(r) == market[r].pc \in {"recording", "done"} /\ market[r].outcome # "500"

\* C3: a read concurrent with store pipelines returns exactly the levels of one
\* committed book (or of the empty store before the first commit), both sides
\* from the same version.
C3_ReadSeesOneBook ==
    \A r \in Requests :
        HasRead(r) =>
            /\ market[r].vers[1] = market[r].vers[2]
            /\ \/ SameLevels(market[r].book, NoBook)
               \/ \E i \in 1..Len(committed) : SameLevels(market[r].book, committed[i])

\* The part of C3 the single connection does give: both sides of a read come
\* from the same store pipeline.
ReadSidesSameVersion ==
    \A r \in Requests : HasRead(r) => market[r].vers[1] = market[r].vers[2]

\* C4: getFullOrderBook after storeOrderBook(B) completed returns exactly the
\* levels of B, in B's order.
C4_StoreRoundTrip ==
    \A r \in Requests :
        (HasRead(r) /\ market[r].vers[1] # 0) =>
            SameLevels(market[r].book, CommittedAt(market[r].vers[1]))

\* C5: the first message an admitted client receives is its snapshot.
C5_SnapshotFirst ==
    \A s \in Clients :
        (sock[s] \in {"awaiting", "open"} /\ inbox[s] # <<>>) => inbox[s][1].type = "snapshot"

\* C6: a client's snapshot is no older than any delta it received before it,
\* every book committed after the snapshot's store state reaches it as a delta,
\* and no message it receives is older than one it already holds.
SnapshotNoOlderThanEarlierDeltas ==
    \A s \in Clients : \A i, j \in 1..Len(inbox[s]) :
        (i < j /\ inbox[s][i].type = "delta" /\ inbox[s][j].type = "snapshot")
            => inbox[s][i].vers[1] <= inbox[s][j].vers[1]

NoDeltaMissedAfterSnapshot ==
    \A s \in Clients : \A j \in 1..Len(inbox[s]) :
        inbox[s][j].type = "snapshot" =>
            \A n \in 1..Len(arrived) :
                arrived[n] > inbox[s][j].vers[1] =>
                    \E i \in 1..Len(inbox[s]) :
                        inbox[s][i].type = "delta" /\ inbox[s][i].vers[1] = arrived[n]

LastMessageNewest ==
    \A s \in Clients : \A i, j \in 1..Len(inbox[s]) :
        i < j => inbox[s][i].vers[1] <= inbox[s][j].vers[1]

C6_SubscribeSequenced ==
    /\ SnapshotNoOlderThanEarlierDeltas
    /\ NoDeltaMissedAfterSnapshot
    /\ LastMessageNewest

\* C7: deltas reach the gateway in the order their books were committed, every
\* connected client receives exactly the deltas that arrived since it connected,
\* in that order, and each delta carries the top levels of its one book.
DeltasOf(s) ==
    LET RECURSIVE pick(_)
        pick(i) == IF i > Len(inbox[s]) THEN <<>>
                   ELSE IF inbox[s][i].type = "delta"
                        THEN <<inbox[s][i]>> \o pick(i + 1)
                        ELSE pick(i + 1)
    IN  pick(1)

C7_DeltasInCommitOrder ==
    /\ Len(arrived) <= Len(committed)
    /\ arrived = SubSeq(CommittedTimestamps, 1, Len(arrived))
    /\ \A s \in Joined :
         LET deltas == DeltasOf(s)
         IN  /\ [i \in 1..Len(deltas) |-> deltas[i].data.timestamp]
                  = SubSeq(arrived, joinedAt[s] + 1, Len(arrived))
             /\ \A i \in 1..Len(deltas) :
                    LET b == CommittedAt(deltas[i].data.timestamp)
                    IN  /\ deltas[i].data.bids = Slice(b.bids, TOP_LEVELS)
                        /\ deltas[i].data.asks = Slice(b.asks, TOP_LEVELS)

\* Two clients connected throughout two cycles hold the two deltas, in order.
C7_Witness ==
    /\ Len(committed) = 2
    /\ Len(arrived) = 2
    /\ \A s \in Clients :
         /\ s \in Joined
         /\ joinedAt[s] = 0
         /\ Len(DeltasOf(s)) = 2
         /\ DeltasOf(s)[1].data.timestamp = committed[1].timestamp
         /\ DeltasOf(s)[2].data.timestamp = committed[2].timestamp

\* C8: at most one execution of updateOrderBook is in progress.
C8_CyclesSerial == Cardinality({c \in Cycles : InProgress(c)}) <= 1

\* C9: a cycle whose fetch was in flight when stopUpdater was called neither
\* writes the store nor publishes.
C9_StoppedCycleDoesNotCommit ==
    \A c \in Cycles : cyc[c].stopped => cyc[c].pc \notin {"storing", "publishing"}

\* C10: from the return of stopUpdater until the next startUpdater no interval
\* is set and the scheduler is idle.
C10_StoppedMeansNoTimer ==
    stopReturned => (timers = {} /\ updateInterval = 0 /\ ~isRunning)


\* ---------------------------------------------------- claims on the updater
\* C11: the recurring timer is set only when the initial cycle of startUpdater
\* has completed, and there is never a second timer.
C11_OneCycleThenOneTimer ==
    /\ \A c \in Cycles : (cyc[c].kind = "initial" /\ InProgress(c)) => timers = {}
    /\ Cardinality(timers) <= 1

\* C12: however a cycle ends, by a failed fetch, validation, store or publish
\* or normally, its end leaves isRunning and the timers as they are, or sets
\* the timer if the cycle was the initial one; a running scheduler whose
\* initial cycle has returned has its timer, and the timer can start a cycle.
C12_CycleEnd ==
    \A c \in Cycles :
        (InProgress(c) /\ cyc'[c].pc = "done") =>
            /\ isRunning' = isRunning
            /\ timers \subseteq timers'
            /\ IF cyc[c].kind = "initial"
               THEN c \in timers' /\ updateInterval' = c
               ELSE timers' = timers /\ updateInterval' = updateInterval

C12_RunningKeepsTimer ==
    /\ (isRunning /\ \A c \in Cycles : ~(cyc[c].kind = "initial" /\ InProgress(c)))
           => (updateInterval # 0 /\ updateInterval \in timers)
    /\ (timers # {} /\ HasFreeCycle) => ENABLED (\E t \in Cycles : TimerTick(t))

C12_FailureContained == []C12_RunningKeepsTimer /\ [][C12_CycleEnd]_vars

\* The store write of the initial cycle failed; the scheduler runs, its timer is
\* set and has started the next cycle.
C12_Witness ==
    /\ "store" \in failed
    /\ isRunning
    /\ updateInterval \in timers
    /\ \E c \in Cycles : cyc[c].kind = "timer" /\ InProgress(c)

\* C13: a cycle whose last fetch attempt fails ends there, and that step
\* changes neither the store nor any Redis connection; while it fetches, a
\* cycle has written and published nothing.
C13_TerminalFailureStep ==
    \A c \in Cycles :
        (/\ cyc[c].pc = "fetching"
         /\ cyc[c].attempt = MAX_ATTEMPTS
         /\ cyc'[c].pc # "fetching"
         /\ now' = now) =>
            /\ cyc'[c].pc = "done"
            /\ UNCHANGED <<redisVars, clientConn, pubConns, committed>>

C13_FetchingCycleWroteNothing ==
    \A c \in Cycles :
        cyc[c].pc \in {"fetching", "sleeping"} =>
            /\ \A i \in 1..Len(reqQ) : reqQ[i].owner # <<"cycle", c>>
            /\ \A i \in 1..Len(replyQ) : replyQ[i].owner # <<"cycle", c>>
            /\ \A i \in 1..Len(pubQ) : pubQ[i].cycle # c
            /\ \A i \in 1..Len(pubReplyQ) : pubReplyQ[i] # c

C13_FetchFailureSkipsCycle ==
    []C13_FetchingCycleWroteNothing /\ [][C13_TerminalFailureStep]_vars

\* A cycle ran out of attempts and the store holds the book another cycle
\* committed.
C13_Witness ==
    /\ "fetch" \in failed
    /\ Len(committed) = 1
    /\ \A c \in Cycles : cyc[c].pc = "done"
    /\ \A k \in Keys : keyVer[k] = committed[1].timestamp
    /\ zsets[BIDS_KEY] # {}

\* C14: the cycle publishes when, and only when, the reply of its store
\* pipeline has arrived: one message, the first TOP_LEVELS levels of each side
\* of its book with the book's timestamp; the messages on their way carry
\* distinct committed books, in commit order.
TopLevelsOf(orderBook) ==
    [bids |-> Slice(orderBook.bids, TOP_LEVELS),
     asks |-> Slice(orderBook.asks, TOP_LEVELS),
     timestamp |-> orderBook.timestamp]

C14_PublishStep ==
    /\ \A c \in Cycles :
         (cyc[c].pc = "storing" /\ cyc'[c].pc # "storing") =>
             IF cyc'[c].pc = "publishing"
             THEN /\ replyQ # <<>>
                  /\ Head(replyQ).owner = <<"cycle", c>>
                  /\ Head(replyQ).cmds = <<>>
                  /\ \E i \in 1..Len(committed) : committed[i] = cyc[c].book
                  /\ pubQ' = Append(pubQ, [cycle |-> c,
                                           message |-> JsonStringify(TopLevelsOf(cyc[c].book))])
             ELSE Len(pubQ') <= Len(pubQ)
    /\ Len(pubQ') > Len(pubQ) =>
           \E c \in Cycles : cyc[c].pc = "storing" /\ cyc'[c].pc = "publishing"

PublishedBooks ==
    [i \in 1..Len(subQ) |-> JsonParse(subQ[i])]
        \o [i \in 1..Len(pubQ) |-> JsonParse(pubQ[i].message)]

C14_PublishedOnce ==
    LET stamps == arrived \o [i \in 1..Len(PublishedBooks) |-> PublishedBooks[i].timestamp]
    IN  /\ \A i, j \in 1..Len(stamps) : i < j => stamps[i] < stamps[j]
        /\ \A i \in 1..Len(stamps) : \E n \in 1..Len(committed) : committed[n].timestamp = stamps[i]
        /\ \A i \in 1..Len(PublishedBooks) :
               PublishedBooks[i] = TopLevelsOf(CommittedAt(PublishedBooks[i].timestamp))

C14_CommitPublishesTopLevels == []C14_PublishedOnce /\ [][C14_PublishStep]_vars

\* A committed book with two levels a side was published with one level a
\* side, and another cycle's candidate was refused and published nothing.
C14_Witness ==
    /\ skipped # {}
    /\ Len(committed) = 1
    /\ Len(committed[1].bids) = 2
    /\ Len(subQ) = 1
    /\ JsonParse(subQ[1]).timestamp = committed[1].timestamp
    /\ Len(JsonParse(subQ[1]).bids) = 1
    /\ pubQ = <<>>
    /\ \A c \in Cycles : cyc[c].pc \in {"done", "publishing"}

\* ------------------------------------------------- claims on the simulation
\* The side a simulated order consumes
ConsumedSide == IF sim.side = "buy" THEN sim.book.asks ELSE sim.book.bids

\* The sum of the quantities of the first k levels
RECURSIVE SumQuantities(_, _)
SumQuantities(levels, k) ==
    IF k = 0 THEN 0 ELSE SumQuantities(levels, k - 1) + Quantity(levels[k])

\* What a greedy walk takes from level i
GreedyFill(levels, amount, i) ==
    LET left == amount - SumQuantities(levels, i - 1)
        take == Min(left, Quantity(levels[i]))
    IN  IF take > 0 THEN take ELSE 0

RECURSIVE GreedyFilled(_, _, _)
GreedyFilled(levels, amount, k) ==
    IF k = 0 THEN 0 ELSE GreedyFilled(levels, amount, k - 1) + GreedyFill(levels, amount, k)

RECURSIVE GreedyCost(_, _, _)
GreedyCost(levels, amount, k) ==
    IF k = 0 THEN 0
    ELSE GreedyCost(levels, amount, k - 1) + GreedyFill(levels, amount, k) * Price(levels[k])

\* The smallest k whose first k quantities cover the amount, or the number of levels
FillsNeeded(levels, amount) ==
    LET covering == {k \in 0..Len(levels) : SumQuantities(levels, k) >= amount}
    IN  IF covering = {} THEN Len(levels)
        ELSE CHOOSE k \in covering : \A j \in covering : k <= j

\* C15: for a positive amount the reported filled quantity is at most the
\* amount, and the status is rejected exactly when it is 0, filled exactly when
\* it equals the amount, partial exactly when it lies strictly between.
C15_StatusMatchesFilled ==
    (sim.pc = "done" /\ sim.amount > 0) =>
        LET r == sim.result
        IN  /\ r.filled <= sim.amount
            /\ (r.status = "rejected") <=> (r.filled = 0)
            /\ (r.status = "filled") <=> (r.filled = sim.amount)
            /\ (r.status = "partial") <=> (0 < r.filled /\ r.filled < sim.amount)

\* C16: the walk is greedy in stored order: one fill per level touched, as many
\* fills as levels are needed to cover the amount, each with the level's price
\* and the minimum of the remaining amount and the level's quantity.
C16_GreedyWalk ==
    (sim.pc = "done" /\ ConsumedSide # <<>>) =>
        LET r == sim.result
            levels == ConsumedSide
        IN  /\ r.hasDetails
            /\ Len(r.details) = FillsNeeded(levels, sim.amount)
            /\ \A i \in 1..Len(r.details) :
                   /\ r.details[i].price = Price(levels[i])
                   /\ r.details[i].quantity
                          = ToFixedQuantity(GreedyFill(levels, sim.amount, i))
            /\ r.filled = ToFixedQuantity(GreedyFilled(levels, sim.amount, Len(levels)))

\* A buy of 20 from asks of 10, 10 and 40 took two fills and is filled.
C16_Witness ==
    /\ sim.pc = "done"
    /\ sim.side = "buy"
    /\ sim.amount = 20
    /\ Len(sim.book.asks) = 3
    /\ Len(sim.result.details) = 2
    /\ sim.result.filled = 20

\* C17: with an empty consumed side the result is rejected, with filled,
\* avg_price and slippage_pct 0 and no fills, whatever the other side and the
\* amount are.
C17_EmptySideRejected ==
    (sim.pc = "done" /\ ConsumedSide = <<>>) =>
        /\ sim.result.status = "rejected"
        /\ sim.result.filled = 0
        /\ sim.result.avg_price = 0
        /\ sim.result.slippage_pct = 0
        /\ sim.result.details = <<>>

\* A positive sell was simulated on a book with asks and no bids.
C17_Witness ==
    /\ sim.pc = "done"
    /\ sim.side = "sell"
    /\ sim.amount > 0
    /\ sim.book.bids = <<>>
    /\ sim.book.asks # <<>>

\* C18: an amount of zero or less is rejected with nothing filled and no level
\* touched, on every book.
C18_NonPositiveAmountRejected ==
    (sim.pc = "done" /\ sim.amount <= 0) =>
        /\ sim.result.status = "rejected"
        /\ sim.result.filled = 0
        /\ sim.result.details = <<>>

\* An amount of 0 was simulated against a side that has levels.
C18_Witness ==
    /\ sim.pc = "done"
    /\ sim.amount = 0
    /\ ConsumedSide # <<>>
    /\ sim.result.status = "rejected"

C20_AverageExact ==
    sim.pc = "done" =>
        LET levels == ConsumedSide
            total == GreedyFilled(levels, sim.amount, Len(levels))
        IN  IF total = 0 THEN sim.result.avg_price = 0
            ELSE sim.result.avg_price * total = GreedyCost(levels, sim.amount, Len(levels))

\* C20 (amended): avg_price is the sum of fill quantity times level price
\* divided by the filled total, rounded to the price precision, and 0 when
\* nothing is filled.
C20_AverageRounded ==
    sim.pc = "done" =>
        LET levels == ConsumedSide
            total == GreedyFilled(levels, sim.amount, Len(levels))
        IN  IF total = 0 THEN sim.result.avg_price = 0
            ELSE sim.result.avg_price
                     = RoundHalfUp(GreedyCost(levels, sim.amount, Len(levels)), total)

\* A buy of 20 at 51 and 53 in equal parts has the average 52.
C20_Witness ==
    /\ sim.pc = "done"
    /\ sim.side = "buy"
    /\ sim.amount = 20
    /\ Len(sim.result.details) = 2
    /\ sim.result.details[1].price = 51
    /\ sim.result.details[2].price = 53
    /\ sim.result.avg_price = 52

\* ---------------------------------------------- claims on market requests
\* What a store pipeline for the book leaves at the key
StoredAt(k, orderBook) ==
    IF k = BIDS_KEY THEN ZAdd({}, BidsArgs(orderBook.bids))
    ELSE ZAdd({}, AsksArgs(orderBook.asks))

NoStoreInFlight == \A i \in 1..Len(reqQ) : reqQ[i].owner[1] # "cycle"

\* The step executes a command or handles the reply of a pipeline of a request
RequestStep ==
    \/ market' # market
    \/ /\ reqQ # <<>>
       /\ Head(reqQ).owner[1] \in {"market", "history"}
       /\ reqQ' # reqQ

\* C21: no step of a market-order request (its read, its simulation, the write
\* of its history record, its answer) changes the bids or the asks of the
\* store or the book the request holds; they change only when a command of an
\* update cycle's pipeline is executed or a key expires, so that between
\* store pipelines each key holds what the last committed book put there, or
\* nothing once it expired.
C21_RequestLeavesBook ==
    /\ RequestStep => UNCHANGED <<zsets, expires, keyVer>>
    /\ \A r \in Requests :
           (HasRead(r) /\ market[r].pc = "recording") => market'[r].book = market[r].book
    /\ (zsets' # zsets \/ expires' # expires) =>
           \/ reqQ # <<>> /\ Head(reqQ).owner[1] = "cycle" /\ reqQ' # reqQ
           \/ \E k \in Keys : expires[k] /\ zsets'[k] = {} /\ ~expires'[k]

C21_StoreIsLastCommit ==
    NoStoreInFlight =>
        \A k \in Keys :
            IF committed = <<>> THEN zsets[k] = {}
            ELSE LET written == StoredAt(k, committed[Len(committed)])
                 IN  /\ zsets[k] \in {written, {}}
                     /\ expires[k] => zsets[k] = written

C21_SimulationLeavesBook == []C21_StoreIsLastCommit /\ [][C21_RequestLeavesBook]_vars

\* An order was filled from two levels and recorded in the history, and the
\* store holds both sides of the book the last cycle committed.
C21_Witness ==
    /\ \E r \in Requests :
           /\ market[r].outcome = "result"
           /\ Len(market[r].result.details) = 2
    /\ Len(ledger.entries[HISTORY_ALL]) = 1
    /\ NoStoreInFlight
    /\ committed # <<>>
    /\ \A k \in Keys : expires[k] /\ zsets[k] = StoredAt(k, committed[Len(committed)])

\* C22: a second call of simulateMarketBuy or simulateMarketSell with the same
\* book and amount returns the result of the first (filled, avg_price,
\* slippage_pct, status and fills), and neither call changes the book.
C22_SecondCallSame ==
    /\ sim.pc = "twice" => sim'.pc = "twice"
    /\ sim.pc # "none" => (sim'.book = sim.book /\ sim'.amount = sim.amount)
    /\ sim'.pc = "twice" => sim'.again = sim'.result

C23_Admitted ==
    /\ Cardinality(Joined) <= MAX_CONNECTIONS
    /\ \A s \in Sockets :
           sock[s] = "rejected" =>
               /\ inbox[s] = <<Msg("error", NoBook, <<0, 0>>)>>
               /\ \A i \in 1..Len(reqQ) : reqQ[i].owner # <<"conn", s>>
               /\ \A i \in 1..Len(replyQ) : replyQ[i].owner # <<"conn", s>>

C23_ArrivalAtLimit ==
    \A s \in Sockets :
        (sock[s] = "new" /\ sock'[s] # "new" /\ Cardinality(Joined) >= MAX_CONNECTIONS) =>
            /\ sock'[s] = "rejected"
            /\ inbox'[s] = <<Msg("error", NoBook, <<0, 0>>)>>
            /\ reqQ' = reqQ

C23_AdmissionControl == []C23_Admitted /\ [][C23_ArrivalAtLimit]_vars

\* MAX_CONNECTIONS sockets hold their snapshots and the next one was refused.
C23_Witness ==
    /\ Cardinality({s \in Sockets : sock[s] = "open" /\ inbox[s] # <<>>
                                       /\ inbox[s][1].type = "snapshot"}) = MAX_CONNECTIONS
    /\ \E s \in Sockets : sock[s] = "rejected" /\ inbox[s][1].type = "error"

\* C24: a delta that arrives while connectedClients is 0 is dropped: the step
\* sends nothing and leaves the counter and every socket as they are, and no
\* client ever holds a delta that arrived before it connected.
C24_DroppedStep ==
    (Len(arrived') > Len(arrived) /\ connectedClients = 0) =>
        /\ UNCHANGED <<connectedClients, sock, inbox, joinedAt>>
        /\ UNCHANGED <<clientConn, pubQ, pubReplyQ>>

C24_NoEarlierDelta ==
    \A s \in Sockets : \A i \in 1..Len(inbox[s]) :
        inbox[s][i].type = "delta" =>
            /\ s \in Joined
            /\ \A n \in 1..joinedAt[s] : arrived[n] # inbox[s][i].data.timestamp

C24_PublishWithoutSubscribers == []C24_NoEarlierDelta /\ [][C24_DroppedStep]_vars

\* A delta arrived before the first client connected; that client holds its
\* snapshot and the later delta only.
C24_Witness ==
    /\ Len(arrived) = 2
    /\ sock[1] = "open"
    /\ joinedAt[1] = 1
    /\ Len(inbox[1]) = 2
    /\ \E i \in 1..2 : inbox[1][i].type = "snapshot"
    /\ \E i \in 1..2 : inbox[1][i].type = "delta" /\ inbox[1][i].data.timestamp = arrived[2]

\* The sockets whose connection was handled and whose disconnect was not
Connected == {s \in Sockets : sock[s] \in {"awaiting", "open", "rejected"}}

\* C25: a second handleDisconnect for a socket changes nothing, so the counter
\* that admission and the no-subscriber shortcut read stays the number of
\* connected sockets.
C25_SecondRemovalStep ==
    \A s \in Sockets :
        (sock[s] = "closed" /\ sock'[s] # "closed") =>
            UNCHANGED <<connectedClients, inbox, joinedAt>>

C25_UnsubscribeIdempotent ==
    /\ [](connectedClients = Cardinality(Connected))
    /\ [][C25_SecondRemovalStep]_vars

\* What the simulation makes of the book request r read
SimulationOf(r) ==
    IF market[r].side = "buy"
    THEN simulateMarketBuy(market[r].book, market[r].amount)
    ELSE simulateMarketSell(market[r].book, market[r].amount)

\* C26: the answer to a market-order request is decided by the book it read:
\* 503 if both sides are empty; otherwise 400 if the simulation on that book
\* is rejected, and its result if it is partial or filled, never a returned
\* result that is rejected; 500 if, and only if, the read itself failed.
C26_AnswerOf(r) ==
    IF market[r].outcome = "500"
    THEN "read" \in failed /\ market[r].book = NoBook
    ELSE /\ market[r].outcome =
                IF market[r].book.bids = <<>> /\ market[r].book.asks = <<>> THEN "503"
                ELSE IF SimulationOf(r).status = "rejected" THEN "400"
                ELSE "result"
         /\ market[r].outcome \in {"400", "result"} => market[r].result = SimulationOf(r)
         /\ market[r].outcome = "result" => market[r].result.status \in {"partial", "filled"}

C26_Answers ==
    \A r \in Requests :
        IF market[r].pc = "done" THEN C26_AnswerOf(r) ELSE market[r].outcome = "pending"

C26_ReadFailureStep ==
    ("read" \notin failed /\ "read" \in failed') =>
        \E r \in Requests :
            /\ market[r].pc = "reading"
            /\ market'[r].pc = "done"
            /\ market'[r].outcome = "500"

C26_OutcomeFollowsBook == []C26_Answers /\ [][C26_ReadFailureStep]_vars

\* A buy read a book that has bids and no asks and was answered 400.
C26_Witness ==
    \E r \in Requests :
        /\ market[r].pc = "done"
        /\ market[r].side = "buy"
        /\ market[r].book.bids # <<>>
        /\ market[r].book.asks = <<>>
        /\ market[r].outcome = "400"

\* A request read the store after both keys of a committed book had expired
\* and was answered 503.
AnsweredAfterExpiry ==
    \E r \in Requests :
        /\ market[r].outcome = "503"
        /\ market[r].vers[1] # 0
        /\ market[r].vers[2] # 0

\* A request whose read failed was answered 500.
AnsweredReadFailure == \E r \in Requests : market[r].outcome = "500"

\* A partial result was returned.
AnsweredPartial ==
    \E r \in Requests : market[r].outcome = "result" /\ market[r].result.status = "partial"

\* -------------------------------------------- claims on reads of the store
\* The snapshots the sockets hold
Snapshots ==
    {m \in UNION {{inbox[s][i] : i \in 1..Len(inbox[s])} : s \in Sockets} :
        m.type = "snapshot"}

\* The book whose store pipeline last wrote a key with version t
BookOfVersion(t) == IF t = 0 THEN NoBook ELSE CommittedAt(t)

\* C27: what getOrderBook(n) returns is, side by side, the first n levels (or
\* all, if fewer) of the committed book the store held, in that book's order.
C27_ReadTopOfCommitted ==
    \A m \in Snapshots :
        /\ m.data.bids = Slice(BookOfVersion(m.vers[1]).bids, SNAPSHOT_LIMIT)
        /\ m.data.asks = Slice(BookOfVersion(m.vers[2]).asks, SNAPSHOT_LIMIT)

\* The part of C27 that ZRANGE does give: at every state of the store what
\* getOrderBook(n) reads is the first n levels of what getFullOrderBook reads.
TopIsPrefixOfFull ==
    \A k \in Keys :
        parseRedisZRange(ZRange(zsets[k], SNAPSHOT_LIMIT - 1), k = BIDS_KEY)
            = Slice(parseRedisZRange(ZRange(zsets[k], -1), k = BIDS_KEY), SNAPSHOT_LIMIT)

\* Clients reading the book while time passes
ClockNext ==
    \/ triggerUpdate
    \/ CycleNext(AdmissionBooks)
    \/ GatewayNext
    \/ Tick

SpecClock == Init /\ [][ClockNext]_vars

\* C28: the timestamp of a book read from the store is the timestamp of the
\* committed book the store held, the one its delta carries; two reads of that
\* book return the same timestamp.
C28_ReadTimestampIsCapture ==
    \A m \in Snapshots :
        (m.vers[1] # 0 /\ m.vers[2] = m.vers[1]) =>
            m.data.timestamp = BookOfVersion(m.vers[1]).timestamp

\* Update cycles whose fetchOrderBook makes up to DEFAULT_MAX_ATTEMPTS attempts.
RetryNext ==
    \/ triggerUpdate
    \/ \E c \in Cycles : FetchFailWithin(c, DEFAULT_MAX_ATTEMPTS)
    \/ \E c \in Cycles : RetryWake(c)
    \/ \E c \in Cycles, raw \in AdmissionBooks, hasTimestamp \in BOOLEAN :
            FetchOk(c, raw, hasTimestamp)
    \/ RedisExec
    \/ RedisPublish
    \/ ClientReply
    \/ PublishReply
    \/ SubscriberMessage

SpecRetry == Init /\ [][RetryNext]_vars

\* The attempts of fetchOrderBook never exceed the limit, and it sleeps only
\* between two attempts.
C29_AttemptsBounded ==
    \A c \in Cycles :
        /\ cyc[c].attempt <= DEFAULT_MAX_ATTEMPTS
        /\ cyc[c].pc = "sleeping" => cyc[c].attempt < DEFAULT_MAX_ATTEMPTS

\* What an attempt's outcome leads to: a success (the clock read by the exchange
\* advances) makes fetchOrderBook return, the cycle goes on with the book or ends
\* on a failed validation, and no further call is made; a failure before the
\* last attempt leads to the next call; a failure of the last attempt raises
\* the error, which ends the cycle.
C29_AttemptStep ==
    \A c \in Cycles :
        (cyc[c].pc = "fetching" /\ cyc'[c] # cyc[c]) =>
            \/ /\ now' = now + 1
               /\ cyc'[c].pc \in {"storing", "done"}
               /\ cyc'[c].pc = "storing" => cyc'[c].attempt = cyc[c].attempt
            \/ /\ now' = now
               /\ cyc[c].attempt < DEFAULT_MAX_ATTEMPTS
               /\ cyc'[c].pc = "sleeping"
               /\ cyc'[c].attempt = cyc[c].attempt
            \/ /\ now' = now
               /\ cyc[c].attempt = DEFAULT_MAX_ATTEMPTS
               /\ cyc'[c].pc = "done"
               /\ "fetch" \in failed'

\* The call after a sleep is the next attempt.
C29_WakeStep ==
    \A c \in Cycles :
        (cyc[c].pc = "sleeping" /\ cyc'[c] # cyc[c]) =>
            /\ cyc'[c].pc = "fetching"
            /\ cyc'[c].attempt = cyc[c].attempt + 1

\* C29: fetchOrderBook makes at most MAX_ATTEMPTS calls to the exchange; it
\* returns the result of the first call that succeeds and makes no call after
\* it; once all MAX_ATTEMPTS calls have failed it raises the terminal error.
C29_FetchTerminates ==
    /\ []C29_AttemptsBounded
    /\ [][C29_AttemptStep /\ C29_WakeStep]_vars

\* A cycle made every attempt and all failed; another succeeded at its last.
C29_Witness ==
    /\ "fetch" \in failed
    /\ \E c \in Cycles : cyc[c].pc = "storing" /\ cyc[c].attempt = DEFAULT_MAX_ATTEMPTS

\* A cycle waits only while it sleeps, and what it waits after its failed
\* attempt k is INITIAL_DELAY_MS for k = 1, BACKOFF_MULTIPLIER times that for k = 2.
C30_DelayOfAttempt ==
    \A c \in Cycles :
        /\ cyc[c].pc # "sleeping" => cyc[c].delay = 0
        /\ (cyc[c].pc = "sleeping" /\ cyc[c].attempt = 1) =>
               cyc[c].delay = INITIAL_DELAY_MS
        /\ (cyc[c].pc = "sleeping" /\ cyc[c].attempt = 2) =>
               cyc[c].delay = INITIAL_DELAY_MS * BACKOFF_MULTIPLIER

\* Attempt k + 1 is made out of the sleep that followed attempt k, a failed
\* attempt below the limit leads to that sleep, and a failed last attempt
\* ends the cycle with no sleep.
C30_WaitStep ==
    \A c \in Cycles :
        /\ (cyc'[c].pc = "fetching" /\ cyc'[c].attempt > 1 /\ cyc'[c] # cyc[c]) =>
               /\ cyc[c].pc = "sleeping"
               /\ cyc[c].attempt = cyc'[c].attempt - 1
               /\ cyc[c].delay > 0
        /\ (cyc[c].pc = "fetching" /\ cyc'[c] # cyc[c] /\ now' = now) =>
               IF cyc[c].attempt < DEFAULT_MAX_ATTEMPTS
               THEN cyc'[c].pc = "sleeping" /\ cyc'[c].delay > 0
               ELSE cyc'[c].pc = "done" /\ cyc'[c].delay = 0

\* C30: between failed attempt k and attempt k + 1 fetchOrderBook waits
\* INITIAL_DELAY_MS x BACKOFF_MULTIPLIER^(k-1), and it does not wait after the
\* last failed attempt before it raises the error.
C30_BackoffDelays ==
    /\ []C30_DelayOfAttempt
    /\ [][C30_WaitStep]_vars

\* One cycle sleeps after its second failed attempt while another has failed
\* its last attempt.
C30_Witness ==
    /\ "fetch" \in failed
    /\ \E c \in Cycles :
           /\ cyc[c].pc = "sleeping"
           /\ cyc[c].attempt = 2
           /\ cyc[c].delay = 2 * INITIAL_DELAY_MS

\* Some bid of the raw book is priced at or above some ask of it.
RawCrossed(raw) ==
    \E i \in 1..Len(raw.bids), j \in 1..Len(raw.asks) :
        Price(raw.bids[i]) >= Price(raw.asks[j])

\* The book a cycle hands to validateOrderBook when the exchange answers raw.
Candidate(raw, hasTimestamp) ==
    transformOrderBook([bids |-> raw.bids, asks |-> raw.asks,
                        timestamp |-> IF hasTimestamp THEN now' ELSE 0], now')

\* Whatever the order of the raw levels, the candidate has its bids in
\* non-increasing and its asks in non-decreasing price order, and the cycle
\* is skipped only if the raw book is crossed.
C31_CandidateStep ==
    \A c \in Cycles, raw \in RawBooks, hasTimestamp \in BOOLEAN :
        FetchOk(c, raw, hasTimestamp) =>
            LET orderBook == Candidate(raw, hasTimestamp)
            IN  /\ \A i \in 2..Len(orderBook.bids) :
                       Price(orderBook.bids[i]) <= Price(orderBook.bids[i - 1])
                /\ \A i \in 2..Len(orderBook.asks) :
                       Price(orderBook.asks[i]) >= Price(orderBook.asks[i - 1])
                /\ cyc'[c].pc = "done" => RawCrossed(raw)
                /\ cyc'[c].pc = "storing" => cyc'[c].book = orderBook

\* C31: the book that reaches validateOrderBook is sorted by transformOrderBook,
\* bids by non-increasing and asks by non-decreasing price, for any raw book;
\* no cycle is skipped merely because the exchange supplied unsorted levels.
C31_SortedBeforeValidation == [][C31_CandidateStep]_vars

\* The book the exchange supplied with bids ascending and asks descending was
\* committed, sorted.
C31_Witness ==
    \E i \in 1..Len(committed) :
        /\ committed[i].bids = << <<3, 1>>, <<2, 3>> >>
        /\ committed[i].asks = << <<5, 4>>, <<6, 2>> >>

\* Update cycles fed with books whose levels may have no quantity.
QuantityNext ==
    \/ triggerUpdate
    \/ CycleNext(QuantityBooks)

SpecQuantity == Init /\ [][QuantityNext]_vars

\* C32: every level of a committed book has a strictly positive quantity and
\* a strictly positive price; a candidate with a level of zero or negative
\* quantity is never committed as it is.
C32_CommittedLevelsPositive ==
    \A i \in 1..Len(committed) :
        \A side \in {committed[i].bids, committed[i].asks} :
            \A j \in 1..Len(side) : Quantity(side[j]) > 0 /\ Price(side[j]) > 0

\* No level the store holds has a quantity of zero or less.
StoredQuantitiesPositive ==
    \A k \in Keys : \A e \in zsets[k] : ParseFloat(e.member) > 0

\* The step that ends the recording of an order, whether storeOrder resolved
\* or rejected: the request is answered with the result the simulation gave,
\* or with the rejection that result calls for.
C33_RecordingStep ==
    \A r \in Requests :
        (market[r].pc = "recording" /\ market'[r] # market[r]) =>
            /\ market'[r].pc = "done"
            /\ market'[r].result = market[r].result
            /\ market'[r].outcome =
                   IF market[r].result.status = "rejected" THEN "400" ELSE "result"

\* C33: a failure of OrderHistoryService.storeOrder never changes the outcome
\* of a market-order request: simulateMarketOrder returns the same result, or
\* raises the same rejection, as when storeOrder succeeds.
C33_HistoryFailureHarmless == [][C33_RecordingStep]_vars

\* storeOrder failed, nothing was recorded, and the order was answered with
\* its result.
C33_Witness ==
    /\ "history" \in failed
    /\ ledger = EmptyLedger
    /\ \E r \in Requests :
           /\ market[r].pc = "done"
           /\ market[r].outcome = "result"
           /\ market[r].result.status \in {"filled", "partial"}

\* storeOrder failed and the order was rejected for want of liquidity.
RejectedAfterHistoryFailure ==
    /\ "history" \in failed
    /\ ledger = EmptyLedger
    /\ \E r \in Requests : market[r].pc = "done" /\ market[r].outcome = "400"

\* C34: at most one recurring timer exists, and no timer is left while
\* isRunning, what getStatus and the health check report, is false: stopUpdater
\* cancels every timer that was installed.
C34_SchedulerConsistent ==
    /\ Cardinality(timers) <= 1
    /\ ~isRunning => timers = {}
    /\ timers \subseteq {updateInterval}

\* isRunning is set by startUpdater and cleared by stopUpdater only.
IsRunningStep ==
    /\ (~isRunning /\ isRunning') => stopReturned' = FALSE
    /\ (isRunning /\ ~isRunning') => stopReturned' = TRUE
    /\ stopReturned' # stopReturned => isRunning' = ~stopReturned'

IsRunningFollowsCalls == [][IsRunningStep]_vars

\* The counter is the number of sockets whose connection was handled and whose
\* disconnect event has not been, and is never negative.
C35_CounterIsConnected ==
    /\ connectedClients >= 0
    /\ connectedClients = Cardinality(Connected)
    /\ (\A s \in Sockets : sock[s] \in {"new", "closed"}) => connectedClients = 0

\* The disconnect of a refused socket gives its slot back, and a socket that
\* arrives while fewer than MAX_CONNECTIONS are connected is admitted.
C35_SlotStep ==
    \A s \in Sockets :
        /\ (sock[s] = "rejected" /\ sock'[s] = "closed") =>
               connectedClients' = connectedClients - 1
        /\ (sock[s] = "new" /\ sock'[s] # "new"
               /\ Cardinality(Connected) < MAX_CONNECTIONS) => sock'[s] = "awaiting"

SnapshotFailed ==
    {s \in Sockets : sock[s] = "open" /\ \E i \in 1..Len(inbox[s]) : inbox[s][i].type = "error"}

\* A client whose snapshot read failed holds one error and no snapshot, is
\* counted and connected, and holds every delta that arrived since it connected.
C36_FailedClientServed ==
    \A s \in SnapshotFailed :
        /\ s \in Joined
        /\ Cardinality({i \in 1..Len(inbox[s]) : inbox[s][i].type = "error"}) = 1
        /\ \A i \in 1..Len(inbox[s]) : inbox[s][i].type # "snapshot"
        /\ [i \in 1..Len(DeltasOf(s)) |-> DeltasOf(s)[i].data.timestamp]
               = SubSeq(arrived, joinedAt[s] + 1, Len(arrived))

\* The step that ends the wait for the snapshot of a client that stays: the
\* client is open and was sent a snapshot or an error; with the error, the
\* counter, the other clients, the cycles and the scheduler are as before.
C36_SnapshotStep ==
    \A s \in Sockets :
        (sock[s] = "awaiting" /\ sock'[s] \notin {"awaiting", "closed"}) =>
            /\ sock'[s] = "open"
            /\ Len(inbox'[s]) = Len(inbox[s]) + 1
            /\ SubSeq(inbox'[s], 1, Len(inbox[s])) = inbox[s]
            /\ inbox'[s][Len(inbox'[s])].type \in {"snapshot", "error"}
            /\ inbox'[s][Len(inbox'[s])].type = "error" =>
                   /\ UNCHANGED <<connectedClients, arrived, joinedAt, cyc, schedVars>>
                   /\ UNCHANGED <<redisVars, pubConns>>
                   /\ \A t \in Sockets \ {s} : sock'[t] = sock[t] /\ inbox'[t] = inbox[t]

\* C36: if the snapshot read fails during handleConnection the client is sent
\* an error instead of a snapshot, is not disconnected and keeps receiving the
\* deltas that follow; nothing else is affected.
C36_SnapshotFailureContained == []C36_FailedClientServed /\ [][C36_SnapshotStep]_vars

\* A client holds the error and then a delta; another, connected before it,
\* holds its snapshot and the same delta.
C36_Witness ==
    \E s \in Sockets, t \in Sockets :
        /\ s # t
        /\ Len(inbox[s]) = 2
        /\ inbox[s][1].type = "error"
        /\ inbox[s][2].type = "delta"
        /\ sock[t] = "open"
        /\ Len(inbox[t]) = 2
        /\ inbox[t][1].type = "snapshot"
        /\ inbox[t][2] = inbox[s][2]

\* A book with the given sides
BookOf(bids, asks) == [bids |-> bids, asks |-> asks, timestamp |-> 0]

\* C37: simulateMarketSell on a book whose bids are L returns what
\* simulateMarketBuy returns on a book whose asks are L, field by field; a buy
\* does not depend on the bids of its book nor a sell on the asks.
C37_BuySellMirror ==
    sim.pc = "done" =>
        IF sim.side = "sell"
        THEN /\ sim.result = simulateMarketBuy(BookOf(sim.book.asks, sim.book.bids), sim.amount)
             /\ \A other \in SimAsks \cup SimBids :
                    simulateMarketBuy(BookOf(other, sim.book.bids), sim.amount) = sim.result
             /\ \A other \in SimAsks \cup SimBids :
                    simulateMarketSell(BookOf(sim.book.bids, other), sim.amount) = sim.result
        ELSE /\ sim.result = simulateMarketSell(BookOf(sim.book.asks, sim.book.bids), sim.amount)
             /\ \A other \in SimAsks \cup SimBids :
                    simulateMarketSell(BookOf(sim.book.asks, other), sim.amount) = sim.result
             /\ \A other \in SimAsks \cup SimBids :
                    simulateMarketBuy(BookOf(other, sim.book.asks), sim.amount) = sim.result

\* A sell of 20 walked two bids of a book that has no asks.
C37_Witness ==
    /\ sim.pc = "done"
    /\ sim.side = "sell"
    /\ sim.amount = 20
    /\ sim.book.bids = << <<50, 10>>, <<48, 30>> >>
    /\ sim.book.asks = <<>>
    /\ sim.result.status = "filled"
    /\ Len(sim.result.details) = 2
    /\ sim.result.slippage_pct < 0

\* The sum of the quantities of the first k fills
RECURSIVE SumFills(_, _)
SumFills(details, k) == IF k = 0 THEN 0 ELSE SumFills(details, k - 1) + details[k].quantity

\* The fills of the result are taken from a prefix of the consumed side in
\* order, each more than 0 and at most its level, every level but the last
\* touched taken whole, and they sum to filled, the minimum of the amount and
\* the quantity of the side.
FillsAccountFor(result, levels, amount) ==
    /\ Len(result.details) <= Len(levels)
    /\ \A i \in 1..Len(result.details) :
           /\ result.details[i].price = Price(levels[i])
           /\ result.details[i].quantity > 0
           /\ result.details[i].quantity <= Quantity(levels[i])
           /\ i < Len(result.details) => result.details[i].quantity = Quantity(levels[i])
    /\ SumFills(result.details, Len(result.details)) = result.filled
    /\ result.filled = Min(amount, SumQuantities(levels, Len(levels)))

\* C38: for every book whose levels have positive quantity and every positive
\* amount, the fills are a prefix of the consumed side in order, each fill is
\* more than 0 and at most its level's quantity, every touched level but the
\* last is consumed whole, and the fills sum to filled = min(amount, quantity
\* of the consumed side).
C38_FillAccounting ==
    (sim.pc = "done" /\ sim.amount > 0) =>
        FillsAccountFor(sim.result, ConsumedSide, sim.amount)

\* The same for amounts with no more decimals than QUANTITY_PRECISION keeps.
FillAccountingOnGrid ==
    (sim.pc = "done" /\ sim.amount > 0 /\ sim.amount % 10 = 0) =>
        FillsAccountFor(sim.result, ConsumedSide, sim.amount)

\* The candidate holds, of each side of the raw book, the DEPTH_LEVELS levels
\* with the best prices, best first.
C39_BestLevelsStep ==
    \A c \in Cycles, raw \in RawBooks, hasTimestamp \in BOOLEAN :
        FetchOk(c, raw, hasTimestamp) =>
            LET orderBook == Candidate(raw, hasTimestamp)
            IN  /\ orderBook.bids = Slice(SortDesc(raw.bids), DEPTH_LEVELS)
                /\ orderBook.asks = Slice(SortAsc(raw.asks), DEPTH_LEVELS)

\* C39: for any raw book with more than DEPTH_LEVELS levels on a side, in any
\* order, transformOrderBook returns the DEPTH_LEVELS best-priced levels of
\* that side, so the best bid and ask of the committed book are those of the
\* raw book.
C39_TruncationKeepsBest == [][C39_BestLevelsStep]_vars

\* The scheduler started and never stopped, its cycles, and clients.
ProgressNext ==
    \/ startUpdater
    \/ \E t \in Cycles : TimerTick(t)
    \/ CycleNext(AdmissionBooks)
    \/ GatewayNext

\* Every call a cycle awaits settles: the exchange answers or the call fails
\* (the exchange client has a timeout), a sleep ends, Redis executes what it
\* was sent and Node handles what it receives; the timer fires.
ProgressFairness ==
    /\ \A c \in Cycles :
           WF_vars(FetchFail(c) \/ \E raw \in AdmissionBooks, hasTimestamp \in BOOLEAN :
                                      FetchOk(c, raw, hasTimestamp))
    /\ \A c \in Cycles : WF_vars(RetryWake(c))
    /\ \A t \in Cycles : WF_vars(TimerTick(t))
    /\ WF_vars(RedisExec)
    /\ WF_vars(RedisPublish)
    /\ WF_vars(ClientReply)
    /\ WF_vars(PublishReply)
    /\ WF_vars(SubscriberMessage)

SpecProgress == Init /\ [][ProgressNext]_vars /\ ProgressFairness

\* The store holds the committed book of timestamp t
StoreHolds(t) ==
    \A k \in Keys : keyVer[k] = t /\ zsets[k] = StoredAt(k, CommittedAt(t))

\* The delta of the book of timestamp t is on its way to the gateway
DeltaInFlight(t) ==
    \/ \E i \in 1..Len(pubQ) : JsonParse(pubQ[i].message).timestamp = t
    \/ \E i \in 1..Len(subQ) : JsonParse(subQ[i]).timestamp = t

\* Client s holds the delta of the book of timestamp t
HoldsDelta(s, t) ==
    \E i \in 1..Len(inbox[s]) :
        inbox[s][i].type = "delta" /\ inbox[s][i].data.timestamp = t

\* C40: every started cycle terminates; a cycle that fetched a valid book and
\* whose store and publish succeed leads to the store holding that book, and
\* every client connected while its delta is on its way receives it unless it
\* leaves first; failed cycles before it change none of this.
C40_Progress ==
    /\ \A c \in Cycles : InProgress(c) ~> (cyc[c].pc = "done")
    /\ \A c \in Cycles, t \in 1..MaxCycles :
           (cyc[c].pc = "storing" /\ cyc[c].book.timestamp = t) ~> StoreHolds(t)
    /\ \A s \in Clients, t \in 1..MaxCycles :
           (DeltaInFlight(t) /\ s \in Joined) ~> (HoldsDelta(s, t) \/ s \notin Joined)

\* The initial cycle failed every fetch; the timer-driven cycle after it has
\* stored its book and published the delta while a client is connected.
C40_Witness ==
    /\ isRunning
    /\ "fetch" \in failed
    /\ cyc[1].pc = "done"
    /\ cyc[2].pc = "publishing"
    /\ StoreHolds(cyc[2].book.timestamp)
    /\ DeltaInFlight(cyc[2].book.timestamp)
    /\ Joined # {}

====
